---- MODULE Spec2Model ----
(***************************************************************************)
(* A model of primp's HTTP/2 fingerprint-emulation primitives:             *)
(*   - SettingsOrderBuilder / SettingsOrder   (primp-h2 frame/settings.rs) *)
(*   - Settings setters, encode and load      (primp-h2 frame/settings.rs) *)
(*   - PrioritiesBuilder and Priority::load   (primp-h2 frame/priority.rs) *)
(* and of primp-reqwest's browser impersonation built on them:             *)
(*   - the TLS emulation tables        (primp-rustls crypto/emulation)     *)
(*   - the OnceLock caches of BrowserEmulator and EmulationProfile and     *)
(*     the build_*_settings functions that read them    (imp/*/mod.rs)     *)
(*   - get_random_impersonate_config and configure_impersonate             *)
(*   - the identifier parsers            (src/impersonate.rs, traits.rs)   *)
(*   - the DNS cache                     (primp-reqwest dns/cache.rs)      *)
(* Each component has its own specification (SpecOrder, SpecEncode,        *)
(* SpecLoad, SpecPrio, SpecRegistry, SpecConfigure, SpecSelect,            *)
(* SpecParse, SpecDns); the variables of the other components stay at      *)
(* their initial values.                                                   *)
(***************************************************************************)
EXTENDS Integers, Sequences, FiniteSets, TLC

VARIABLES
    sob,        \* SettingsOrderBuilder { ids, mask }
    sobPushed,  \* history: every SettingId handed to push, in call order
    sobCalls,   \* number of push/extend calls made on the builder
    order,      \* the SettingsOrder returned by build / build_without_extend
    orderBy,    \* which of the two consumed the builder ("none" before)
    settings,   \* a Settings value
    frame,      \* a SETTINGS frame on the wire: head, length, payload bytes
    loaded,     \* the Result of Settings::load
    phase,      \* position of the Settings scenario
    pb,         \* PrioritiesBuilder { priorities, inserted_bitmap }
    pbPushed,   \* history: every Priority handed to push, in call order
    pbCalls,    \* number of push/extend calls made on the builder
    prios,      \* the Priorities returned by build (Option)
    cells,      \* the process-wide OnceLock statics, by name
    inits,      \* history: initializer runs started, per static
    thr,        \* the threads inside build_*_settings: position and locals
    builds,     \* number of build_*_settings calls made so far
    seenBuild,  \* history: one earlier build (arguments and result)
    lastBuild,  \* the latest build returned (arguments and result)
    sel,        \* get_random_impersonate_config: arguments and result
    cb,         \* the ClientBuilder handed through configure_impersonate
    parsed,     \* the latest from_str call: parser, input and Result
    now,        \* Instant::now(), in ticks
    entries,    \* CacheInner.entries: name -> Option<CachedEntry>
    handles,    \* number of DnsCache handles: the original and its clones
    pending,    \* per handle: the name of a resolve awaiting the resolver
    calls,      \* history: invocations of the inner resolver, per name
    done,       \* the latest resolve that returned: what it returned
    completed,  \* history: expiry of the entry of the last Ok resolve, per name
    stored      \* history: the addrs ever inserted, per name

orderVars == <<sob, sobPushed, sobCalls, order, orderBy>>
settingsVars == <<settings, frame, loaded, phase>>
prioVars == <<pb, pbPushed, pbCalls, prios>>
registryVars == <<cells, inits, thr, builds, seenBuild, lastBuild>>
clientVars == <<sel, cb, parsed>>
dnsVars == <<now, entries, handles, pending, calls, done, completed, stored>>
vars == <<sob, sobPushed, sobCalls, order, orderBy,
          settings, frame, loaded, phase,
          pb, pbPushed, pbCalls, prios,
          cells, inits, thr, builds, seenBuild, lastBuild,
          sel, cb, parsed,
          now, entries, handles, pending, calls, done, completed, stored>>

(***************************************************************************)
(* Bounds of the model.                                                    *)
(***************************************************************************)
\* push/extend calls made on one SettingsOrderBuilder
MaxCalls == 3
\* 6-byte fields of a SETTINGS payload handed to Settings::load
MaxFields == 2
\* push/extend calls made on one PrioritiesBuilder
MaxPrioCalls == 3

(***************************************************************************)
(* Option<T>: None is the empty sequence, Some(v) the one-element one.     *)
(***************************************************************************)
None == <<>>
Some(v) == <<v>>
IsSome(o) == o # <<>>
Unwrap(o) == o[1]

(***************************************************************************)
(* Machine integers.  A u16 is a natural below 2^16.  A u32 is modelled as *)
(* its two 16-bit halves <<hi, lo>>, so that values at and above 2^31 are  *)
(* kept exactly.                                                           *)
(***************************************************************************)
RECURSIVE BitAnd(_, _)
BitAnd(a, b) ==
    IF a = 0 \/ b = 0 THEN 0
    ELSE (a % 2) * (b % 2) + 2 * BitAnd(a \div 2, b \div 2)

RECURSIVE BitOr(_, _)
BitOr(a, b) ==
    IF a = 0 THEN b
    ELSE IF b = 0 THEN a
    ELSE (IF a % 2 = 1 \/ b % 2 = 1 THEN 1 ELSE 0)
         + 2 * BitOr(a \div 2, b \div 2)

U16Wrap == 65536
U32(hi, lo) == <<hi, lo>>
U32Zero == U32(0, 0)
U32Le(a, b) == a[1] < b[1] \/ (a[1] = b[1] /\ a[2] <= b[2])
U32And(a, b) == U32(BitAnd(a[1], b[1]), BitAnd(a[2], b[2]))
U32Or(a, b) == U32(BitOr(a[1], b[1]), BitOr(a[2], b[2]))
\* 1u32 << n, for n < 32
U32Shl1(n) == IF n < 16 THEN U32(0, 2 ^ n) ELSE U32(2 ^ (n - 16), 0)

(***************************************************************************)
(* SettingId (define_enum_with_values! @U16)                                *)
(***************************************************************************)
HeaderTableSize == 1
EnablePush == 2
MaxConcurrentStreams == 3
InitialWindowSize == 4
MaxFrameSize == 5
MaxHeaderListSize == 6
EnableConnectProtocol == 8
NoRfc7540Priorities == 9

MAX_ID == 15
DEFAULT_IDS ==
    <<HeaderTableSize, EnablePush, MaxConcurrentStreams, InitialWindowSize,
      MaxFrameSize, MaxHeaderListSize, EnableConnectProtocol,
      NoRfc7540Priorities>>
SettingIds == {DEFAULT_IDS[i] : i \in 1..Len(DEFAULT_IDS)}

mask_id(value) ==
    IF value = 0 \/ value > MAX_ID THEN 0 ELSE (2 ^ (value - 1)) % U16Wrap

(***************************************************************************)
(* SettingsOrderBuilder                                                    *)
(***************************************************************************)
SettingsOrder_builder == [ids |-> <<>>, mask |-> 0]

SettingsOrderBuilder_push_no_dedup(b, id) ==
    [ids |-> Append(b.ids, id), mask |-> BitOr(b.mask, mask_id(id))]

SettingsOrderBuilder_push(b, id) ==
    LET m == mask_id(id) IN
    IF m # 0
    THEN IF BitAnd(b.mask, m) = 0
         THEN [ids |-> Append(b.ids, id), mask |-> BitOr(b.mask, m)]
         ELSE b
    ELSE b

RECURSIVE SettingsOrderBuilder_extend(_, _)
SettingsOrderBuilder_extend(b, iter) ==
    IF iter = <<>> THEN b
    ELSE SettingsOrderBuilder_extend(
             SettingsOrderBuilder_push(b, Head(iter)), Tail(iter))

SettingsOrderBuilder_build_only_when_empty(b) ==
    IF Len(b.ids) = 0
    THEN SettingsOrderBuilder_extend(b, DEFAULT_IDS).ids
    ELSE b.ids

SettingsOrderBuilder_build(b) ==
    IF Len(b.ids) # Len(DEFAULT_IDS)
    THEN SettingsOrderBuilder_extend(b, DEFAULT_IDS).ids
    ELSE b.ids

SettingsOrderBuilder_build_without_extend_extending(b) ==
    SettingsOrderBuilder_extend(b, DEFAULT_IDS).ids

SettingsOrderBuilder_build_without_extend(b) == b.ids

SettingsOrder_default == DEFAULT_IDS

\* iterables handed to extend: empty, a repeat, a repeat around another id,
\* the canonical list and a permuted pair
ExtendInputs ==
    { <<>>,
      <<EnablePush, EnablePush>>,
      <<InitialWindowSize, HeaderTableSize, InitialWindowSize>>,
      <<NoRfc7540Priorities, EnableConnectProtocol>>,
      DEFAULT_IDS }

SobPush(id) ==
    /\ orderBy = "none"
    /\ sobCalls < MaxCalls
    /\ sob' = SettingsOrderBuilder_push(sob, id)
    /\ sobPushed' = Append(sobPushed, id)
    /\ sobCalls' = sobCalls + 1
    /\ UNCHANGED <<order, orderBy>>
    /\ UNCHANGED <<settingsVars, prioVars, registryVars, clientVars, dnsVars>>

SobExtend(iter) ==
    /\ orderBy = "none"
    /\ sobCalls < MaxCalls
    /\ sob' = SettingsOrderBuilder_extend(sob, iter)
    /\ sobPushed' = sobPushed \o iter
    /\ sobCalls' = sobCalls + 1
    /\ UNCHANGED <<order, orderBy>>
    /\ UNCHANGED <<settingsVars, prioVars, registryVars, clientVars, dnsVars>>

SobBuild ==
    /\ orderBy = "none"
    /\ order' = Some(SettingsOrderBuilder_build(sob))
    /\ orderBy' = "build"
    /\ UNCHANGED <<sob, sobPushed, sobCalls>>
    /\ UNCHANGED <<settingsVars, prioVars, registryVars, clientVars, dnsVars>>

SobBuildWithoutExtend ==
    /\ orderBy = "none"
    /\ order' = Some(SettingsOrderBuilder_build_without_extend(sob))
    /\ orderBy' = "build_without_extend"
    /\ UNCHANGED <<sob, sobPushed, sobCalls>>
    /\ UNCHANGED <<settingsVars, prioVars, registryVars, clientVars, dnsVars>>

OrderIdle ==
    /\ sob = SettingsOrder_builder
    /\ sobPushed = <<>>
    /\ sobCalls = 0
    /\ order = None
    /\ orderBy = "none"

(***************************************************************************)
(* Settings                                                                *)
(***************************************************************************)
ACK == 1
ALL == ACK

\* (1 << 31) - 1, 16_384 and (1 << 24) - 1 as u32 halves
MAX_INITIAL_WINDOW_SIZE_is_1_shl_31 == U32(32768, 0)
MAX_INITIAL_WINDOW_SIZE == U32(32767, 65535)
DEFAULT_MAX_FRAME_SIZE == U32(0, 16384)
MAX_MAX_FRAME_SIZE == U32(255, 65535)

SettingsFlags_load(bits) == BitAnd(bits, ALL)
SettingsFlags_is_ack(flags) == BitAnd(flags, ACK) = ACK

Settings_default ==
    [flags |-> 0,
     header_table_size |-> None,
     enable_push |-> None,
     max_concurrent_streams |-> None,
     initial_window_size |-> None,
     max_frame_size |-> None,
     max_header_list_size |-> None,
     enable_connect_protocol |-> None,
     no_rfc7540_priorities |-> None,
     settings_order |-> SettingsOrder_default]

Settings_ack == [Settings_default EXCEPT !.flags = ACK]

\* enum Setting: a variant and its u32
Setting(kind, val) == [kind |-> kind, val |-> val]

Setting_from_id_knows_7(id, val) ==
    CASE id = 1 -> Some(Setting("HeaderTableSize", val))
      [] id = 2 -> Some(Setting("EnablePush", val))
      [] id = 3 -> Some(Setting("MaxConcurrentStreams", val))
      [] id = 4 -> Some(Setting("InitialWindowSize", val))
      [] id = 5 -> Some(Setting("MaxFrameSize", val))
      [] id = 6 -> Some(Setting("MaxHeaderListSize", val))
      [] id = 7 -> Some(Setting("EnableConnectProtocol", val))
      [] id = 8 -> Some(Setting("EnableConnectProtocol", val))
      [] id = 9 -> Some(Setting("NoRfc7540Priorities", val))
      [] OTHER -> None

Setting_from_id(id, val) ==
    CASE id = 1 -> Some(Setting("HeaderTableSize", val))
      [] id = 2 -> Some(Setting("EnablePush", val))
      [] id = 3 -> Some(Setting("MaxConcurrentStreams", val))
      [] id = 4 -> Some(Setting("InitialWindowSize", val))
      [] id = 5 -> Some(Setting("MaxFrameSize", val))
      [] id = 6 -> Some(Setting("MaxHeaderListSize", val))
      [] id = 8 -> Some(Setting("EnableConnectProtocol", val))
      [] id = 9 -> Some(Setting("NoRfc7540Priorities", val))
      [] OTHER -> None

\* big-endian u32 at raw[off..off+4] (off counted from 0, as in the source)
unpack_octets_4(raw, off) ==
    U32(raw[off + 1] * 256 + raw[off + 2], raw[off + 3] * 256 + raw[off + 4])

Setting_load(raw) ==
    LET id == BitOr((raw[1] * 256) % U16Wrap, raw[2])
        val == unpack_octets_4(raw, 2)
    IN Setting_from_id(id, val)

put_u16(n) == <<n \div 256, n % 256>>
put_u32(v) == <<v[1] \div 256, v[1] % 256, v[2] \div 256, v[2] % 256>>

Setting_encode_9_as_8(st) ==
    LET kind == CASE st.kind = "HeaderTableSize" -> 1
                  [] st.kind = "EnablePush" -> 2
                  [] st.kind = "MaxConcurrentStreams" -> 3
                  [] st.kind = "InitialWindowSize" -> 4
                  [] st.kind = "MaxFrameSize" -> 5
                  [] st.kind = "MaxHeaderListSize" -> 6
                  [] st.kind = "EnableConnectProtocol" -> 8
                  [] st.kind = "NoRfc7540Priorities" -> 8
    IN put_u16(kind) \o put_u32(st.val)

Setting_encode(st) ==
    LET kind == CASE st.kind = "HeaderTableSize" -> 1
                  [] st.kind = "EnablePush" -> 2
                  [] st.kind = "MaxConcurrentStreams" -> 3
                  [] st.kind = "InitialWindowSize" -> 4
                  [] st.kind = "MaxFrameSize" -> 5
                  [] st.kind = "MaxHeaderListSize" -> 6
                  [] st.kind = "EnableConnectProtocol" -> 8
                  [] st.kind = "NoRfc7540Priorities" -> 9
    IN put_u16(kind) \o put_u32(st.val)

\* one arm of for_each's match: the Setting passed to f for id, if any
ForEachArm(s, id) ==
    CASE id = HeaderTableSize ->
           IF IsSome(s.header_table_size)
           THEN <<Setting("HeaderTableSize", Unwrap(s.header_table_size))>>
           ELSE <<>>
      [] id = EnablePush ->
           IF IsSome(s.enable_push)
           THEN <<Setting("EnablePush", Unwrap(s.enable_push))>>
           ELSE <<>>
      [] id = MaxConcurrentStreams ->
           IF IsSome(s.max_concurrent_streams)
           THEN <<Setting("MaxConcurrentStreams",
                          Unwrap(s.max_concurrent_streams))>>
           ELSE <<>>
      [] id = InitialWindowSize ->
           IF IsSome(s.initial_window_size)
           THEN <<Setting("InitialWindowSize", Unwrap(s.initial_window_size))>>
           ELSE <<>>
      [] id = MaxFrameSize ->
           IF IsSome(s.max_frame_size)
           THEN <<Setting("MaxFrameSize", Unwrap(s.max_frame_size))>>
           ELSE <<>>
      [] id = MaxHeaderListSize ->
           IF IsSome(s.max_header_list_size)
           THEN <<Setting("MaxHeaderListSize", Unwrap(s.max_header_list_size))>>
           ELSE <<>>
      [] id = EnableConnectProtocol ->
           IF IsSome(s.enable_connect_protocol)
           THEN <<Setting("EnableConnectProtocol",
                          Unwrap(s.enable_connect_protocol))>>
           ELSE <<>>
      [] id = NoRfc7540Priorities ->
           IF IsSome(s.no_rfc7540_priorities)
           THEN <<Setting("NoRfc7540Priorities",
                          Unwrap(s.no_rfc7540_priorities))>>
           ELSE <<>>

RECURSIVE ForEachOver(_, _)
ForEachOver(s, ids) ==
    IF ids = <<>> THEN <<>>
    ELSE ForEachArm(s, Head(ids)) \o ForEachOver(s, Tail(ids))

Settings_for_each_default_order(s) == ForEachOver(s, DEFAULT_IDS)

\* the Settings passed to f, in call order
Settings_for_each(s) == ForEachOver(s, s.settings_order)

Settings_payload_len(s) == 6 * Len(Settings_for_each(s))

RECURSIVE EncodeAll(_)
EncodeAll(sts) ==
    IF sts = <<>> THEN <<>>
    ELSE Setting_encode(Head(sts)) \o EncodeAll(Tail(sts))

Head_new(kind, flag, stream_id) ==
    [kind |-> kind, flag |-> flag, stream_id |-> stream_id]

\* head.encode(payload_len, dst) followed by the encoded settings
Settings_encode(s) ==
    [head |-> Head_new("Settings", s.flags, 0),
     length |-> Settings_payload_len(s),
     payload |-> EncodeAll(Settings_for_each(s))]

Ok(s) == [tag |-> "Ok", settings |-> s]
Err(e) == [tag |-> "Err", error |-> e]
NotLoaded == [tag |-> "None"]

\* one turn of load's loop: the match on Setting::load(raw)
LoadSetting(s, raw) ==
    LET st == Setting_load(raw)
        kind == IF IsSome(st) THEN Unwrap(st).kind ELSE "None"
        val == IF IsSome(st) THEN Unwrap(st).val ELSE U32Zero
    IN
    CASE kind = "HeaderTableSize" ->
           Ok([s EXCEPT !.header_table_size = Some(val)])
      [] kind = "EnablePush" ->
           IF val = U32(0, 0) \/ val = U32(0, 1)
           THEN Ok([s EXCEPT !.enable_push = Some(val)])
           ELSE Err("InvalidSettingValue")
      [] kind = "MaxConcurrentStreams" ->
           Ok([s EXCEPT !.max_concurrent_streams = Some(val)])
      [] kind = "InitialWindowSize" ->
           IF ~U32Le(val, MAX_INITIAL_WINDOW_SIZE)
           THEN Err("InvalidSettingValue")
           ELSE Ok([s EXCEPT !.initial_window_size = Some(val)])
      [] kind = "MaxFrameSize" ->
           IF U32Le(DEFAULT_MAX_FRAME_SIZE, val) /\ U32Le(val, MAX_MAX_FRAME_SIZE)
           THEN Ok([s EXCEPT !.max_frame_size = Some(val)])
           ELSE Err("InvalidSettingValue")
      [] kind = "MaxHeaderListSize" ->
           Ok([s EXCEPT !.max_header_list_size = Some(val)])
      [] kind = "EnableConnectProtocol" ->
           IF val = U32(0, 0) \/ val = U32(0, 1)
           THEN Ok([s EXCEPT !.enable_connect_protocol = Some(val)])
           ELSE Err("InvalidSettingValue")
      [] kind = "NoRfc7540Priorities" ->
           Ok([s EXCEPT !.no_rfc7540_priorities = Some(val)])
      [] OTHER -> Ok(s)

\* for raw in payload.chunks(6), returning at the first error
\* LoadChunks applying the chunks from the last to the first
RECURSIVE LoadChunks_backwards(_, _)
LoadChunks_backwards(s, payload) ==
    IF payload = <<>> THEN Ok(s)
    ELSE LET r == LoadChunks_backwards(s, SubSeq(payload, 7, Len(payload)))
         IN IF r.tag = "Err" THEN r
            ELSE LoadSetting(r.settings, SubSeq(payload, 1, 6))

RECURSIVE LoadChunks(_, _)
LoadChunks(s, payload) ==
    IF payload = <<>> THEN Ok(s)
    ELSE LET r == LoadSetting(s, SubSeq(payload, 1, 6)) IN
         IF r.tag = "Err" THEN r
         ELSE LoadChunks(r.settings, SubSeq(payload, 7, Len(payload)))

Settings_load_length_first(head, payload) ==
    LET flag == SettingsFlags_load(head.flag) IN
    IF SettingsFlags_is_ack(flag)
    THEN IF payload # <<>>
         THEN Err("InvalidPayloadLength")
         ELSE IF head.stream_id # 0 THEN Err("InvalidStreamId")
              ELSE Ok(Settings_ack)
    ELSE IF Len(payload) % 6 # 0
         THEN Err("InvalidPayloadAckSettings")
         ELSE IF head.stream_id # 0 THEN Err("InvalidStreamId")
              ELSE LoadChunks(Settings_default, payload)

Settings_load(head, payload) ==
    IF head.stream_id # 0 THEN Err("InvalidStreamId")
    ELSE
      LET flag == SettingsFlags_load(head.flag) IN
      IF SettingsFlags_is_ack(flag)
      THEN IF payload # <<>>
           THEN Err("InvalidPayloadLength")
           ELSE Ok(Settings_ack)
      ELSE IF Len(payload) % 6 # 0
           THEN Err("InvalidPayloadAckSettings")
           ELSE LoadChunks(Settings_default, payload)

(***************************************************************************)
(* Settings scenarios: configure, encode, load                             *)
(***************************************************************************)
NoFrame == [head |-> Head_new("None", 0, 0), length |-> 0, payload |-> <<>>]

\* orders a caller can obtain: the default, the Edge and Safari partial
\* orders, a complete permuted order, a partial order pushed with repeats,
\* and the empty order
ConfiguredOrders ==
    { SettingsOrder_default,
      SettingsOrderBuilder_build_without_extend(
          SettingsOrderBuilder_extend(SettingsOrder_builder,
              <<HeaderTableSize, EnablePush, InitialWindowSize,
                MaxHeaderListSize>>)),
      SettingsOrderBuilder_build_without_extend(
          SettingsOrderBuilder_extend(SettingsOrder_builder,
              <<EnablePush, MaxConcurrentStreams, InitialWindowSize,
                NoRfc7540Priorities>>)),
      SettingsOrderBuilder_build(
          SettingsOrderBuilder_extend(SettingsOrder_builder,
              <<NoRfc7540Priorities, EnableConnectProtocol, MaxHeaderListSize,
                MaxFrameSize>>)),
      SettingsOrderBuilder_build_without_extend(
          SettingsOrderBuilder_extend(SettingsOrder_builder,
              <<MaxFrameSize, EnableConnectProtocol, MaxFrameSize,
                HeaderTableSize>>)),
      SettingsOrderBuilder_build_without_extend(SettingsOrder_builder) }

\* Option<u32> arguments of the setters
HeaderTableSizeArgs == {None, Some(U32(1, 0))}
MaxConcurrentStreamsArgs == {None, Some(U32(0, 100))}
InitialWindowSizeArgs == {None, Some(U32(96, 0)), Some(U32(32768, 0))}
MaxFrameSizeArgs ==
    {None, Some(U32(0, 16383)), Some(U32(0, 16384)), Some(U32(256, 0))}
MaxHeaderListSizeArgs == {None, Some(U32(4, 0))}
EnableConnectProtocolArgs == {None, Some(U32(0, 1)), Some(U32(0, 2))}
NoRfc7540PrioritiesArgs == {None, Some(U32(0, 1))}

set_initial_window_size(size) ==
    /\ phase = "config"
    /\ settings' = [settings EXCEPT !.initial_window_size = size]
    /\ UNCHANGED <<frame, loaded, phase>>
    /\ UNCHANGED <<orderVars, prioVars, registryVars, clientVars, dnsVars>>

set_max_concurrent_streams(max) ==
    /\ phase = "config"
    /\ settings' = [settings EXCEPT !.max_concurrent_streams = max]
    /\ UNCHANGED <<frame, loaded, phase>>
    /\ UNCHANGED <<orderVars, prioVars, registryVars, clientVars, dnsVars>>

\* set_max_frame_size with the assertion compiled out
set_max_frame_size_unchecked(size) ==
    /\ phase = "config"
    /\ settings' = [settings EXCEPT !.max_frame_size = size]
    /\ UNCHANGED <<frame, loaded, phase>>
    /\ UNCHANGED <<orderVars, prioVars, registryVars, clientVars, dnsVars>>

\* the assertion aborts the caller before the store
set_max_frame_size(size) ==
    /\ phase = "config"
    /\ IF IsSome(size)
          /\ ~(U32Le(DEFAULT_MAX_FRAME_SIZE, Unwrap(size))
               /\ U32Le(Unwrap(size), MAX_MAX_FRAME_SIZE))
       THEN /\ phase' = "panicked"
            /\ UNCHANGED settings
       ELSE /\ settings' = [settings EXCEPT !.max_frame_size = size]
            /\ UNCHANGED phase
    /\ UNCHANGED <<frame, loaded>>
    /\ UNCHANGED <<orderVars, prioVars, registryVars, clientVars, dnsVars>>

set_max_header_list_size(size) ==
    /\ phase = "config"
    /\ settings' = [settings EXCEPT !.max_header_list_size = size]
    /\ UNCHANGED <<frame, loaded, phase>>
    /\ UNCHANGED <<orderVars, prioVars, registryVars, clientVars, dnsVars>>

set_enable_push(enable) ==
    /\ phase = "config"
    /\ settings' = [settings EXCEPT
                      !.enable_push = Some(U32(0, IF enable THEN 1 ELSE 0))]
    /\ UNCHANGED <<frame, loaded, phase>>
    /\ UNCHANGED <<orderVars, prioVars, registryVars, clientVars, dnsVars>>

set_enable_connect_protocol(val) ==
    /\ phase = "config"
    /\ settings' = [settings EXCEPT !.enable_connect_protocol = val]
    /\ UNCHANGED <<frame, loaded, phase>>
    /\ UNCHANGED <<orderVars, prioVars, registryVars, clientVars, dnsVars>>

set_no_rfc7540_priorities(val) ==
    /\ phase = "config"
    /\ settings' = [settings EXCEPT !.no_rfc7540_priorities = val]
    /\ UNCHANGED <<frame, loaded, phase>>
    /\ UNCHANGED <<orderVars, prioVars, registryVars, clientVars, dnsVars>>

set_header_table_size(size) ==
    /\ phase = "config"
    /\ settings' = [settings EXCEPT !.header_table_size = size]
    /\ UNCHANGED <<frame, loaded, phase>>
    /\ UNCHANGED <<orderVars, prioVars, registryVars, clientVars, dnsVars>>

set_settings_order(settings_order) ==
    /\ phase = "config"
    /\ settings' = [settings EXCEPT !.settings_order = settings_order]
    /\ UNCHANGED <<frame, loaded, phase>>
    /\ UNCHANGED <<orderVars, prioVars, registryVars, clientVars, dnsVars>>

Encode ==
    /\ phase = "config"
    /\ frame' = Settings_encode(settings)
    /\ phase' = "encoded"
    /\ UNCHANGED <<settings, loaded>>
    /\ UNCHANGED <<orderVars, prioVars, registryVars, clientVars, dnsVars>>

\* Settings::load on the frame at hand: the one just encoded, or the one
\* received
Load ==
    /\ phase \in {"encoded", "input"}
    /\ loaded' = Settings_load(frame.head, frame.payload)
    /\ phase' = "loaded"
    /\ UNCHANGED <<settings, frame>>
    /\ UNCHANGED <<orderVars, prioVars, registryVars, clientVars, dnsVars>>

\* frame heads a peer can send: stream id 0 or not, ACK bit set or not, and
\* an undefined flag bit
InputHeads ==
    {Head_new("Settings", f, sid) : f \in {0, 1, 2}, sid \in {0, 1}}

\* {u16 id}{u32 value} fields a peer can send: the accepted and rejected
\* values at each range boundary, and ids that are not a SettingId
WireFields ==
    {<<HeaderTableSize, U32(1, 0)>>, <<MaxConcurrentStreams, U32(0, 100)>>,
     <<MaxHeaderListSize, U32(4, 0)>>, <<NoRfc7540Priorities, U32(0, 1)>>}
    \cup {<<EnablePush, U32(0, v)>> : v \in {0, 1, 2}}
    \cup {<<EnableConnectProtocol, U32(0, v)>> : v \in {0, 1, 2}}
    \cup {<<InitialWindowSize, U32(32767, 65535)>>,
          <<InitialWindowSize, U32(32768, 0)>>}
    \cup {<<MaxFrameSize, U32(0, 16383)>>, <<MaxFrameSize, U32(0, 16384)>>,
          <<MaxFrameSize, U32(255, 65535)>>, <<MaxFrameSize, U32(256, 0)>>}
    \cup {<<0, U32(0, 0)>>, <<7, U32(0, 5)>>, <<10, U32(65535, 65535)>>,
          <<258, U32(0, 2)>>}

ReceiveField(f) ==
    /\ phase = "input"
    /\ Len(frame.payload) % 6 = 0
    /\ Len(frame.payload) < 6 * MaxFields
    /\ frame' = [frame EXCEPT
                   !.payload = frame.payload \o put_u16(f[1]) \o put_u32(f[2]),
                   !.length = Len(frame.payload) + 6]
    /\ UNCHANGED <<settings, loaded, phase>>
    /\ UNCHANGED <<orderVars, prioVars, registryVars, clientVars, dnsVars>>

\* a lone zero octet, for payloads that are not whole fields
ReceiveOctet ==
    /\ phase = "input"
    /\ Len(frame.payload) < 6 * MaxFields
    /\ frame' = [frame EXCEPT
                   !.payload = Append(frame.payload, 0),
                   !.length = Len(frame.payload) + 1]
    /\ UNCHANGED <<settings, loaded, phase>>
    /\ UNCHANGED <<orderVars, prioVars, registryVars, clientVars, dnsVars>>

SettingsIdle ==
    /\ settings = Settings_default
    /\ frame = NoFrame
    /\ loaded = NotLoaded
    /\ phase = "idle"

(***************************************************************************)
(* PrioritiesBuilder                                                       *)
(***************************************************************************)
MAX_BITMAP_STREAMS == 32

StreamDependency_new(dependency_id, weight, is_exclusive) ==
    [dependency_id |-> dependency_id, weight |-> weight,
     is_exclusive |-> is_exclusive]

StreamDependency_chrome == StreamDependency_new(0, 255, TRUE)

Priority(stream_id, dependency) ==
    [stream_id |-> stream_id, dependency |-> dependency]

Priorities_builder == [priorities |-> <<>>, inserted_bitmap |-> U32Zero]

PrioritiesBuilder_push_no_scan(b, priority) ==
    IF priority.stream_id = 0 THEN b
    ELSE
      LET id == priority.stream_id IN
      IF id < MAX_BITMAP_STREAMS
      THEN LET mask == U32Shl1(id) IN
           IF U32And(b.inserted_bitmap, mask) # U32Zero THEN b
           ELSE [priorities |-> Append(b.priorities, priority),
                 inserted_bitmap |-> U32Or(b.inserted_bitmap, mask)]
      ELSE [priorities |-> Append(b.priorities, priority),
            inserted_bitmap |-> b.inserted_bitmap]

PrioritiesBuilder_push_no_zero_check(b, priority) ==
    LET id == priority.stream_id IN
    IF id < MAX_BITMAP_STREAMS
    THEN LET mask == U32Shl1(id) IN
         IF U32And(b.inserted_bitmap, mask) # U32Zero THEN b
         ELSE [priorities |-> Append(b.priorities, priority),
               inserted_bitmap |-> U32Or(b.inserted_bitmap, mask)]
    ELSE IF \E i \in 1..Len(b.priorities) :
                b.priorities[i].stream_id = priority.stream_id
         THEN b
         ELSE [priorities |-> Append(b.priorities, priority),
               inserted_bitmap |-> b.inserted_bitmap]

\* PrioritiesBuilder_push that appends below the threshold without
\* setting the bit
PrioritiesBuilder_push_no_mark(b, priority) ==
    IF priority.stream_id = 0 THEN b
    ELSE IF priority.stream_id < MAX_BITMAP_STREAMS
            /\ U32And(b.inserted_bitmap, U32Shl1(priority.stream_id))
                   # U32Zero
    THEN b
    ELSE IF \E i \in 1..Len(b.priorities) :
                b.priorities[i].stream_id = priority.stream_id
    THEN b
    ELSE [priorities |-> Append(b.priorities, priority),
          inserted_bitmap |-> b.inserted_bitmap]

PrioritiesBuilder_push(b, priority) ==
    IF priority.stream_id = 0 THEN b
    ELSE
      LET id == priority.stream_id IN
      IF id < MAX_BITMAP_STREAMS
      THEN LET mask == U32Shl1(id) IN
           IF U32And(b.inserted_bitmap, mask) # U32Zero THEN b
           ELSE [priorities |-> Append(b.priorities, priority),
                 inserted_bitmap |-> U32Or(b.inserted_bitmap, mask)]
      ELSE IF \E i \in 1..Len(b.priorities) :
                  b.priorities[i].stream_id = priority.stream_id
           THEN b
           ELSE [priorities |-> Append(b.priorities, priority),
                 inserted_bitmap |-> b.inserted_bitmap]

RECURSIVE PrioritiesBuilder_extend(_, _)
PrioritiesBuilder_extend(b, ps) ==
    IF ps = <<>> THEN b
    ELSE PrioritiesBuilder_extend(
             PrioritiesBuilder_push(b, Head(ps)), Tail(ps))

PrioritiesBuilder_build(b) == b.priorities

\* stream ids on both sides of the bitmap threshold, and stream id 0
PrioStreamIds == {0, 1, 31, 32, 33}
PrioDependencies ==
    {StreamDependency_chrome, StreamDependency_new(3, 15, FALSE)}
PrioInputs ==
    {Priority(sid, d) : sid \in PrioStreamIds, d \in PrioDependencies}
PrioExtendInputs ==
    { <<>>,
      <<Priority(3, StreamDependency_chrome),
        Priority(0, StreamDependency_chrome),
        Priority(3, StreamDependency_new(3, 15, FALSE))>>,
      <<Priority(32, StreamDependency_new(3, 15, FALSE)),
        Priority(5, StreamDependency_chrome),
        Priority(32, StreamDependency_chrome)>> }

PbPush(priority) ==
    /\ prios = None
    /\ pbCalls < MaxPrioCalls
    /\ pb' = PrioritiesBuilder_push(pb, priority)
    /\ pbPushed' = Append(pbPushed, priority)
    /\ pbCalls' = pbCalls + 1
    /\ UNCHANGED prios
    /\ UNCHANGED <<orderVars, settingsVars, registryVars, clientVars, dnsVars>>

PbExtend(ps) ==
    /\ prios = None
    /\ pbCalls < MaxPrioCalls
    /\ pb' = PrioritiesBuilder_extend(pb, ps)
    /\ pbPushed' = pbPushed \o ps
    /\ pbCalls' = pbCalls + 1
    /\ UNCHANGED prios
    /\ UNCHANGED <<orderVars, settingsVars, registryVars, clientVars, dnsVars>>

PbBuild ==
    /\ prios = None
    /\ prios' = Some(PrioritiesBuilder_build(pb))
    /\ UNCHANGED <<pb, pbPushed, pbCalls>>
    /\ UNCHANGED <<orderVars, settingsVars, registryVars, clientVars, dnsVars>>

\* Priority::load as it would read the payload: StreamDependency::load and
\* the test of the dependency against the frame's own stream
Priority_load_parsing(head, payload) ==
    IF Len(payload) # 5
    THEN Err("InvalidPayloadLength")
    ELSE LET dependency_id ==
                 ((payload[1] % 128) * 256 + payload[2]) * 65536
                 + payload[3] * 256 + payload[4]
         IN IF dependency_id = head.stream_id
            THEN Err("InvalidDependencyId")
            ELSE Ok(Priority(head.stream_id,
                             StreamDependency_new(dependency_id, payload[5],
                                                  payload[1] >= 128)))

\* the payload is not read
Priority_load(head, payload) ==
    Ok(Priority(head.stream_id, StreamDependency_chrome))

\* a PRIORITY frame arrives and is decoded
PriorityLoad(head, payload) ==
    /\ phase = "idle"
    /\ frame' = [head |-> head, length |-> Len(payload), payload |-> payload]
    /\ loaded' = Priority_load(head, payload)
    /\ phase' = "loaded"
    /\ UNCHANGED settings
    /\ UNCHANGED <<orderVars, prioVars, registryVars, clientVars, dnsVars>>

PrioIdle ==
    /\ pb = Priorities_builder
    /\ pbPushed = <<>>
    /\ pbCalls = 0
    /\ prios = None

(***************************************************************************)
(* TLS emulation tables (primp-rustls crypto/emulation/mod.rs).  Each      *)
(* table is the Rust module of the same name, one field per constant.      *)
(***************************************************************************)
cipher_suites ==
    LET CHROME == <<
            "TLS_RESERVED_GREASE",
            "TLS13_AES_128_GCM_SHA256",
            "TLS13_AES_256_GCM_SHA384",
            "TLS13_CHACHA20_POLY1305_SHA256",
            "TLS_ECDHE_ECDSA_WITH_AES_128_GCM_SHA256",
            "TLS_ECDHE_RSA_WITH_AES_128_GCM_SHA256",
            "TLS_ECDHE_ECDSA_WITH_AES_256_GCM_SHA384",
            "TLS_ECDHE_RSA_WITH_AES_256_GCM_SHA384",
            "TLS_ECDHE_ECDSA_WITH_CHACHA20_POLY1305_SHA256",
            "TLS_ECDHE_RSA_WITH_CHACHA20_POLY1305_SHA256",
            "TLS_ECDHE_RSA_WITH_AES_128_CBC_SHA",
            "TLS_ECDHE_RSA_WITH_AES_256_CBC_SHA",
            "TLS_RSA_WITH_AES_128_GCM_SHA256",
            "TLS_RSA_WITH_AES_256_GCM_SHA384",
            "TLS_RSA_WITH_AES_128_CBC_SHA",
            "TLS_RSA_WITH_AES_256_CBC_SHA" >>
    IN
    [ CHROME |-> CHROME,
      SAFARI |-> <<
            "TLS13_AES_128_GCM_SHA256",
            "TLS13_AES_256_GCM_SHA384",
            "TLS13_CHACHA20_POLY1305_SHA256",
            "TLS_ECDHE_ECDSA_WITH_AES_256_GCM_SHA384",
            "TLS_ECDHE_ECDSA_WITH_AES_128_GCM_SHA256",
            "TLS_ECDHE_ECDSA_WITH_CHACHA20_POLY1305_SHA256",
            "TLS_ECDHE_RSA_WITH_AES_256_GCM_SHA384",
            "TLS_ECDHE_RSA_WITH_AES_128_GCM_SHA256",
            "TLS_ECDHE_RSA_WITH_CHACHA20_POLY1305_SHA256",
            "TLS_ECDHE_ECDSA_WITH_AES_256_CBC_SHA",
            "TLS_ECDHE_ECDSA_WITH_AES_128_CBC_SHA",
            "TLS_ECDHE_RSA_WITH_AES_256_CBC_SHA",
            "TLS_ECDHE_RSA_WITH_AES_128_CBC_SHA",
            "TLS_RSA_WITH_AES_256_GCM_SHA384",
            "TLS_RSA_WITH_AES_128_GCM_SHA256",
            "TLS_RSA_WITH_AES_256_CBC_SHA",
            "TLS_RSA_WITH_AES_128_CBC_SHA",
            "TLS_ECDHE_ECDSA_WITH_3DES_EDE_CBC_SHA",
            "TLS_ECDHE_RSA_WITH_3DES_EDE_CBC_SHA",
            "TLS_RSA_WITH_3DES_EDE_CBC_SHA" >>,
      FIREFOX |-> <<
            "TLS_RSA_WITH_AES_128_CBC_SHA",
            "TLS_RSA_WITH_AES_256_CBC_SHA",
            "TLS_RSA_WITH_AES_128_GCM_SHA256",
            "TLS_RSA_WITH_AES_256_GCM_SHA384",
            "TLS13_AES_128_GCM_SHA256",
            "TLS13_AES_256_GCM_SHA384",
            "TLS13_CHACHA20_POLY1305_SHA256",
            "TLS_ECDHE_ECDSA_WITH_AES_128_CBC_SHA",
            "TLS_ECDHE_ECDSA_WITH_AES_256_CBC_SHA",
            "TLS_ECDHE_RSA_WITH_AES_128_CBC_SHA",
            "TLS_ECDHE_RSA_WITH_AES_256_CBC_SHA",
            "TLS_ECDHE_ECDSA_WITH_AES_128_GCM_SHA256",
            "TLS_ECDHE_ECDSA_WITH_AES_256_GCM_SHA384",
            "TLS_ECDHE_RSA_WITH_AES_128_GCM_SHA256",
            "TLS_ECDHE_RSA_WITH_AES_256_GCM_SHA384",
            "TLS_ECDHE_RSA_WITH_CHACHA20_POLY1305_SHA256",
            "TLS_ECDHE_ECDSA_WITH_CHACHA20_POLY1305_SHA256" >>,
      EDGE |-> CHROME,
      OPERA |-> CHROME ]

signature_algorithms ==
    LET CHROME == <<
            "ECDSA_NISTP256_SHA256", "RSA_PSS_SHA256", "RSA_PKCS1_SHA256",
            "ECDSA_NISTP384_SHA384", "RSA_PSS_SHA384", "RSA_PKCS1_SHA384",
            "RSA_PSS_SHA512", "RSA_PKCS1_SHA512" >>
    IN
    [ CHROME |-> CHROME,
      SAFARI |-> <<
            "ECDSA_NISTP256_SHA256", "RSA_PSS_SHA256", "RSA_PKCS1_SHA256",
            "ECDSA_NISTP384_SHA384", "RSA_PSS_SHA384", "RSA_PSS_SHA384",
            "RSA_PKCS1_SHA384", "RSA_PSS_SHA512", "RSA_PKCS1_SHA512",
            "RSA_PKCS1_SHA1" >>,
      FIREFOX |-> <<
            "ECDSA_NISTP256_SHA256", "ECDSA_NISTP384_SHA384",
            "ECDSA_NISTP521_SHA512", "RSA_PSS_SHA256", "RSA_PSS_SHA384",
            "RSA_PSS_SHA512", "RSA_PKCS1_SHA256", "RSA_PKCS1_SHA384",
            "RSA_PKCS1_SHA512", "ECDSA_SHA1_Legacy", "RSA_PKCS1_SHA1" >>,
      EDGE |-> CHROME,
      OPERA |-> CHROME ]

named_groups ==
    LET CHROME == << "GREASE", "X25519MLKEM768", "X25519",
                     "secp256r1", "secp384r1" >>
    IN
    [ CHROME |-> CHROME,
      SAFARI |-> << "X25519MLKEM768", "X25519", "secp256r1", "secp384r1" >>,
      FIREFOX |-> << "X25519MLKEM768", "X25519", "secp256r1", "secp384r1" >>,
      EDGE |-> CHROME,
      OPERA |-> << "GREASE", "X25519MLKEM768", "X25519",
                   "secp256r1", "secp384r1" >> ]

\* the u16 seeds 0x8daa, 0x6560, 0x9abc, 0x0271, 0x9a7c, 0x6560
extension_order ==
    [ CHROME |-> 36266,
      SAFARI |-> 25952,
      FIREFOX |-> 39612,
      EDGE |-> 36266,
      OPERA |-> 625,
      SAFARI_18_5 |-> 39548,
      SAFARI_26 |-> 25952 ]

(***************************************************************************)
(* Impersonate, ImpersonateOS (imp/mod.rs) and BrowserEmulator             *)
(* (primp-rustls client/client_emulator.rs).                               *)
(***************************************************************************)
Impersonate ==
    {"ChromeV144", "ChromeV145", "EdgeV144", "EdgeV145", "OperaV126",
     "OperaV127", "SafariV18_5", "SafariV26", "FirefoxV140", "FirefoxV146"}

ImpersonateOS == {"Windows", "MacOS", "Linux", "Android", "IOS"}

BrowserVersion_new(major, minor, patch) ==
    [major |-> major, minor |-> minor, patch |-> patch]

BrowserEmulator_new(browser_type, version) ==
    [browser_type |-> browser_type,
     version |-> version,
     extension_order_seed |-> None,
     cipher_suites |-> None,
     signature_algorithms |-> None,
     named_groups |-> None,
     os_type |-> None]

(***************************************************************************)
(* The OnceLock statics.  A static is named as in the source; for each,    *)
(* `created` is the value its closure starts from and `init` the value     *)
(* the closure returns.  EmulationProfile's closures are one struct        *)
(* literal, so nothing exists before the value is whole (created = None).  *)
(***************************************************************************)
EmulationProfile_static(name) ==
    LET profile(table, seed) ==
            [cipher_suites |-> cipher_suites[table],
             signature_algorithms |-> signature_algorithms[table],
             named_groups |-> named_groups[table],
             extension_order_seed |-> extension_order[seed]]
        value ==
            CASE name = "CHROME_PROFILE" -> profile("CHROME", "CHROME")
              [] name = "EDGE_PROFILE" -> profile("EDGE", "EDGE")
              [] name = "SAFARI_PROFILE" -> profile("SAFARI", "SAFARI")
              [] name = "FIREFOX_PROFILE" -> profile("FIREFOX", "FIREFOX")
              [] name = "SAFARI_18_5_PROFILE" ->
                     profile("SAFARI", "SAFARI_18_5")
              [] name = "SAFARI_26_PROFILE" -> profile("SAFARI", "SAFARI_26")
    IN [static |-> name, created |-> None, init |-> value]

emulator_static(name, browser_type, major, minor, table, seed) ==
    LET emulator ==
            BrowserEmulator_new(browser_type,
                                BrowserVersion_new(major, minor, 0))
    IN [static |-> name,
        created |-> Some(emulator),
        init |-> [emulator EXCEPT
                    !.cipher_suites = Some(cipher_suites[table]),
                    !.named_groups = Some(named_groups[table]),
                    !.signature_algorithms =
                        Some(signature_algorithms[table]),
                    !.extension_order_seed = Some(extension_order[seed])]]

\* the statics build_edge_settings reads: imp/edge/mod.rs:118-161
edge_statics(edge) ==
    [browser_emulator |->
         CASE edge = "EdgeV144" ->
                  emulator_static("EDGE_144", "Edge", 144, 0, "EDGE", "EDGE")
           [] edge = "EdgeV145" ->
                  emulator_static("EDGE_145", "Edge", 145, 0, "EDGE", "EDGE")
           [] OTHER ->
                  emulator_static("EDGE_DEFAULT", "Edge", 144, 0,
                                  "EDGE", "EDGE"),
     emulation_profile |-> EmulationProfile_static("EDGE_PROFILE")]

opera_statics(opera) ==
    [browser_emulator |->
         CASE opera = "OperaV126" ->
                  emulator_static("OPERA_126", "Opera", 126, 0,
                                  "CHROME", "CHROME")
           [] opera = "OperaV127" ->
                  emulator_static("OPERA_127", "Opera", 127, 0,
                                  "CHROME", "CHROME")
           [] OTHER ->
                  emulator_static("OPERA_DEFAULT", "Opera", 127, 0,
                                  "CHROME", "CHROME"),
     emulation_profile |-> EmulationProfile_static("CHROME_PROFILE")]

safari_statics(safari) ==
    [browser_emulator |->
         CASE safari = "SafariV26" ->
                  emulator_static("SAFARI_26", "Safari", 26, 0,
                                  "SAFARI", "SAFARI_26")
           [] safari = "SafariV18_5" ->
                  emulator_static("SAFARI_18_5", "Safari", 18, 5,
                                  "SAFARI", "SAFARI_18_5")
           [] OTHER ->
                  emulator_static("SAFARI_DEFAULT", "Safari", 26, 0,
                                  "SAFARI", "SAFARI"),
     emulation_profile |->
         CASE safari = "SafariV18_5" ->
                  EmulationProfile_static("SAFARI_18_5_PROFILE")
           [] safari = "SafariV26" ->
                  EmulationProfile_static("SAFARI_26_PROFILE")
           [] OTHER -> EmulationProfile_static("SAFARI_PROFILE")]

firefox_statics(firefox) ==
    [browser_emulator |->
         CASE firefox = "FirefoxV140" ->
                  emulator_static("FIREFOX_140", "Firefox", 140, 0,
                                  "FIREFOX", "FIREFOX")
           [] firefox = "FirefoxV146" ->
                  emulator_static("FIREFOX_146", "Firefox", 146, 0,
                                  "FIREFOX", "FIREFOX")
           [] OTHER ->
                  emulator_static("FIREFOX_DEFAULT", "Firefox", 140, 0,
                                  "FIREFOX", "FIREFOX"),
     emulation_profile |-> EmulationProfile_static("FIREFOX_PROFILE")]

(***************************************************************************)
(* Http2Data of each browser module (build_http2_settings, feature http2). *)
(* PseudoOrder and its builder are primp-h2 code outside this source tree: *)
(* an ordered sequence of pseudo-header ids without duplicates, starting   *)
(* empty (builder) and handed over as it is (build).                       *)
(***************************************************************************)
U32FromNat(n) == U32(n \div U16Wrap, n % U16Wrap)

PseudoOrderBuilder_push(b, id) ==
    IF \E i \in 1..Len(b) : b[i] = id THEN b ELSE Append(b, id)

edge_build_http2_settings_with_build(edge) ==
    [initial_stream_window_size |-> Some(U32FromNat(6291456)),
     initial_connection_window_size |-> Some(U32FromNat(15728640)),
     max_concurrent_streams |-> None,
     max_frame_size |-> None,
     max_header_list_size |-> Some(U32FromNat(262144)),
     header_table_size |-> Some(U32FromNat(65536)),
     enable_push |-> Some(FALSE),
     enable_connect_protocol |-> None,
     no_rfc7540_priorities |-> None,
     settings_order |-> Some(
         SettingsOrderBuilder_build(
           SettingsOrderBuilder_push(
             SettingsOrderBuilder_push(
               SettingsOrderBuilder_push(
                 SettingsOrderBuilder_push(SettingsOrder_builder,
                   HeaderTableSize),
                 EnablePush),
               InitialWindowSize),
             MaxHeaderListSize))),
     headers_pseudo_order |-> Some(<<"Method", "Authority", "Scheme", "Path">>),
     headers_stream_dependency |-> Some(StreamDependency_chrome),
     priorities |-> None]

edge_build_http2_settings(edge) ==
    [initial_stream_window_size |-> Some(U32FromNat(6291456)),
     initial_connection_window_size |-> Some(U32FromNat(15728640)),
     max_concurrent_streams |-> None,
     max_frame_size |-> None,
     max_header_list_size |-> Some(U32FromNat(262144)),
     header_table_size |-> Some(U32FromNat(65536)),
     enable_push |-> Some(FALSE),
     enable_connect_protocol |-> None,
     no_rfc7540_priorities |-> None,
     settings_order |-> Some(
         SettingsOrderBuilder_build_without_extend(
           SettingsOrderBuilder_push(
             SettingsOrderBuilder_push(
               SettingsOrderBuilder_push(
                 SettingsOrderBuilder_push(SettingsOrder_builder,
                   HeaderTableSize),
                 EnablePush),
               InitialWindowSize),
             MaxHeaderListSize))),
     headers_pseudo_order |-> Some(
         PseudoOrderBuilder_push(
           PseudoOrderBuilder_push(
             PseudoOrderBuilder_push(
               PseudoOrderBuilder_push(<<>>, "Method"),
               "Authority"),
             "Scheme"),
           "Path")),
     headers_stream_dependency |-> Some(StreamDependency_chrome),
     priorities |-> None]

opera_build_http2_settings(opera) ==
    LET known == opera \in {"OperaV126", "OperaV127"} IN
    [initial_stream_window_size |-> Some(U32FromNat(6291456)),
     initial_connection_window_size |-> Some(U32FromNat(15728640)),
     max_concurrent_streams |-> None,
     max_frame_size |-> None,
     max_header_list_size |-> Some(U32FromNat(262144)),
     header_table_size |-> Some(U32FromNat(65536)),
     enable_push |-> Some(FALSE),
     enable_connect_protocol |-> IF known THEN None ELSE Some(TRUE),
     no_rfc7540_priorities |-> IF known THEN None ELSE Some(TRUE),
     settings_order |-> Some(
         SettingsOrderBuilder_build_without_extend(
           SettingsOrderBuilder_extend(SettingsOrder_builder,
             IF known
             THEN <<HeaderTableSize, EnablePush, InitialWindowSize,
                    MaxHeaderListSize>>
             ELSE <<HeaderTableSize, EnablePush, InitialWindowSize,
                    MaxHeaderListSize, EnableConnectProtocol,
                    NoRfc7540Priorities>>))),
     headers_pseudo_order |-> Some(
         PseudoOrderBuilder_push(
           PseudoOrderBuilder_push(
             PseudoOrderBuilder_push(
               PseudoOrderBuilder_push(<<>>, "Method"),
               "Authority"),
             "Scheme"),
           "Path")),
     headers_stream_dependency |-> Some(StreamDependency_chrome),
     priorities |-> None]

firefox_build_http2_settings_order_1_2_4(firefox) ==
    [initial_stream_window_size |-> Some(U32FromNat(131072)),
     initial_connection_window_size |-> Some(U32FromNat(12517377 + 65535)),
     max_concurrent_streams |-> None,
     max_frame_size |-> Some(U32FromNat(16384)),
     max_header_list_size |-> None,
     header_table_size |-> Some(U32FromNat(65536)),
     enable_push |-> Some(FALSE),
     enable_connect_protocol |-> None,
     no_rfc7540_priorities |-> None,
     settings_order |-> Some(
         SettingsOrderBuilder_build_without_extend(
           SettingsOrderBuilder_push(
             SettingsOrderBuilder_push(
               SettingsOrderBuilder_push(SettingsOrder_builder,
                 HeaderTableSize),
               EnablePush),
             InitialWindowSize))),
     headers_pseudo_order |-> Some(<<"Method", "Path", "Authority", "Scheme">>),
     headers_stream_dependency |-> None,
     priorities |-> None]

firefox_build_http2_settings(firefox) ==
    [initial_stream_window_size |-> Some(U32FromNat(131072)),
     initial_connection_window_size |-> Some(U32FromNat(12517377 + 65535)),
     max_concurrent_streams |-> None,
     max_frame_size |-> Some(U32FromNat(16384)),
     max_header_list_size |-> None,
     header_table_size |-> Some(U32FromNat(65536)),
     enable_push |-> Some(FALSE),
     enable_connect_protocol |-> None,
     no_rfc7540_priorities |-> None,
     settings_order |-> Some(
         SettingsOrderBuilder_build_without_extend(
           SettingsOrderBuilder_push(
             SettingsOrderBuilder_push(
               SettingsOrderBuilder_push(
                 SettingsOrderBuilder_push(SettingsOrder_builder,
                   HeaderTableSize),
                 EnablePush),
               InitialWindowSize),
             MaxFrameSize))),
     headers_pseudo_order |-> Some(
         PseudoOrderBuilder_push(
           PseudoOrderBuilder_push(
             PseudoOrderBuilder_push(
               PseudoOrderBuilder_push(<<>>, "Method"),
               "Path"),
             "Authority"),
           "Scheme")),
     headers_stream_dependency |-> None,
     priorities |-> None]

safari_build_http2_settings_with_order_6(os) ==
    [initial_stream_window_size |-> Some(U32FromNat(2097152)),
     initial_connection_window_size |-> Some(U32FromNat(10485760)),
     max_concurrent_streams |-> Some(U32FromNat(100)),
     max_frame_size |-> None,
     max_header_list_size |-> None,
     header_table_size |-> None,
     enable_push |-> Some(FALSE),
     enable_connect_protocol |-> None,
     no_rfc7540_priorities |-> Some(TRUE),
     settings_order |-> Some(
         SettingsOrderBuilder_build_without_extend(
           SettingsOrderBuilder_extend(SettingsOrder_builder,
             <<EnablePush, MaxConcurrentStreams, InitialWindowSize,
               MaxHeaderListSize, NoRfc7540Priorities>>))),
     headers_pseudo_order |-> Some(<<"Method", "Scheme", "Authority", "Path">>),
     headers_stream_dependency |-> None,
     priorities |-> None]

safari_build_http2_settings(os) ==
    [initial_stream_window_size |-> Some(U32FromNat(2097152)),
     initial_connection_window_size |-> Some(U32FromNat(10485760)),
     max_concurrent_streams |-> Some(U32FromNat(100)),
     max_frame_size |-> None,
     max_header_list_size |-> None,
     header_table_size |-> None,
     enable_push |-> Some(FALSE),
     enable_connect_protocol |-> None,
     no_rfc7540_priorities |-> Some(TRUE),
     settings_order |-> Some(
         SettingsOrderBuilder_build_without_extend(
           SettingsOrderBuilder_push(
             SettingsOrderBuilder_push(
               SettingsOrderBuilder_push(
                 SettingsOrderBuilder_push(SettingsOrder_builder,
                   EnablePush),
                 MaxConcurrentStreams),
               InitialWindowSize),
             NoRfc7540Priorities))),
     headers_pseudo_order |-> Some(
         PseudoOrderBuilder_push(
           PseudoOrderBuilder_push(
             PseudoOrderBuilder_push(
               PseudoOrderBuilder_push(<<>>, "Method"),
               "Scheme"),
             "Authority"),
           "Path")),
     headers_stream_dependency |-> None,
     priorities |-> None]

(***************************************************************************)
(* build_*_settings: the BrowserSettings assembled from the two cached     *)
(* values and the request's OS.  Of the headers only accept-encoding is    *)
(* modelled, as the list of its comma-separated tokens.                    *)
(***************************************************************************)
\* build_edge_settings with the extension-order seed drawn anew for every build
build_edge_settings_fresh_seed(edge, os, browser_emulator, emulation_profile) ==
    [browser_emulator |->
         [browser_emulator EXCEPT !.extension_order_seed = Some(builds)],
     emulation_profile |-> emulation_profile,
     http2 |-> edge_build_http2_settings(edge),
     accept_encoding |-> <<"gzip", "deflate", "br", "zstd">>,
     gzip |-> TRUE,
     brotli |-> TRUE,
     zstd |-> TRUE]

build_edge_settings(edge, os, browser_emulator, emulation_profile) ==
    [browser_emulator |-> browser_emulator,
     emulation_profile |-> emulation_profile,
     http2 |-> edge_build_http2_settings(edge),
     accept_encoding |-> <<"gzip", "deflate", "br", "zstd">>,
     gzip |-> TRUE,
     brotli |-> TRUE,
     zstd |-> TRUE]

build_opera_settings(opera, os, browser_emulator, emulation_profile) ==
    [browser_emulator |-> browser_emulator,
     emulation_profile |-> emulation_profile,
     http2 |-> opera_build_http2_settings(opera),
     accept_encoding |-> <<"gzip", "deflate", "br", "zstd">>,
     gzip |-> TRUE,
     brotli |-> TRUE,
     zstd |-> TRUE]

build_firefox_settings_zstd(firefox, os, browser_emulator, emulation_profile) ==
    [browser_emulator |-> browser_emulator,
     emulation_profile |-> emulation_profile,
     http2 |-> firefox_build_http2_settings(firefox),
     accept_encoding |-> <<"gzip", "deflate", "br">>,
     gzip |-> TRUE,
     brotli |-> TRUE,
     zstd |-> TRUE]

build_firefox_settings(firefox, os, browser_emulator, emulation_profile) ==
    [browser_emulator |-> browser_emulator,
     emulation_profile |-> emulation_profile,
     http2 |-> firefox_build_http2_settings(firefox),
     accept_encoding |-> <<"gzip", "deflate", "br">>,
     gzip |-> TRUE,
     brotli |-> TRUE,
     zstd |-> FALSE]

\* build_safari_settings with the OS of the request kept out of the emulator
build_safari_settings_no_os(safari, os, browser_emulator, emulation_profile) ==
    [browser_emulator |-> browser_emulator,
     emulation_profile |-> emulation_profile,
     http2 |-> safari_build_http2_settings(os),
     accept_encoding |-> <<"gzip", "deflate", "br">>,
     gzip |-> TRUE,
     brotli |-> TRUE,
     zstd |-> FALSE]

build_safari_settings(safari, os, browser_emulator, emulation_profile) ==
    LET browser_os ==
            CASE os = "MacOS" -> "MacOS"
              [] os = "IOS" -> "IOS"
              [] OTHER -> "MacOS"
    IN
    [browser_emulator |->
         [browser_emulator EXCEPT !.os_type = Some(browser_os)],
     emulation_profile |-> emulation_profile,
     http2 |-> safari_build_http2_settings(os),
     accept_encoding |-> <<"gzip", "deflate", "br">>,
     gzip |-> TRUE,
     brotli |-> TRUE,
     zstd |-> FALSE]

\* the browser module a profile is built by, and what it reads and returns
impersonate_module(browser) ==
    CASE browser \in {"EdgeV144", "EdgeV145"} -> "edge"
      [] browser \in {"OperaV126", "OperaV127"} -> "opera"
      [] browser \in {"SafariV18_5", "SafariV26"} -> "safari"
      [] browser \in {"FirefoxV140", "FirefoxV146"} -> "firefox"
      [] OTHER -> "chrome"

statics_of(browser) ==
    CASE impersonate_module(browser) = "edge" -> edge_statics(browser)
      [] impersonate_module(browser) = "opera" -> opera_statics(browser)
      [] impersonate_module(browser) = "safari" -> safari_statics(browser)
      [] impersonate_module(browser) = "firefox" -> firefox_statics(browser)

build_settings(browser, os, browser_emulator, emulation_profile) ==
    CASE impersonate_module(browser) = "edge" ->
             build_edge_settings(browser, os, browser_emulator,
                                 emulation_profile)
      [] impersonate_module(browser) = "opera" ->
             build_opera_settings(browser, os, browser_emulator,
                                  emulation_profile)
      [] impersonate_module(browser) = "safari" ->
             build_safari_settings(browser, os, browser_emulator,
                                   emulation_profile)
      [] impersonate_module(browser) = "firefox" ->
             build_firefox_settings(browser, os, browser_emulator,
                                    emulation_profile)

\* the profiles whose browser module is part of this source tree
BuiltBrowsers == {b \in Impersonate : impersonate_module(b) # "chrome"}

(***************************************************************************)
(* The registry: threads calling build_*_settings, which read the two      *)
(* OnceLock statics of the profile through get_or_init(..).clone().        *)
(* A OnceLock is INCOMPLETE until one caller's closure has returned; the   *)
(* caller that finds it INCOMPLETE runs the closure while the cell is      *)
(* RUNNING, and every other caller of get_or_init waits for COMPLETE.      *)
(***************************************************************************)
\* threads inside build_*_settings at the same time
NumThreads == 2
\* build_*_settings calls made in one run
MaxBuilds == 3
\* configure_impersonate calls made in one process
MaxConfigures == 2

Threads == 1..NumThreads

Statics ==
    UNION { {statics_of(b).browser_emulator.static,
             statics_of(b).emulation_profile.static} : b \in BuiltBrowsers }

\* get_or_init lets every caller that has not seen a value run the closure
OnceLock_must_initialize_unguarded(cell) == cell.once # "COMPLETE"

\* get_or_init: the caller that runs the closure
OnceLock_must_initialize(cell) == cell.once = "INCOMPLETE"

\* get_or_init: the reference it returns, once there is one
OnceLock_get(cell) == IF cell.once = "COMPLETE" THEN cell.value ELSE None

ThreadIdle ==
    [pc |-> "idle", browser |-> "", os |-> "", local |-> None,
     browser_emulator |-> None]

\* the static a thread is at: the emulator's first, the profile's second
static_at(th) ==
    IF th.pc \in {"browser_emulator", "browser_emulator_init"}
    THEN statics_of(th.browser).browser_emulator
    ELSE statics_of(th.browser).emulation_profile

CallBuildSettings(t, browser, os) ==
    /\ thr[t].pc = "idle"
    /\ builds < MaxBuilds
    /\ thr' = [thr EXCEPT ![t] = [ThreadIdle EXCEPT !.pc = "browser_emulator",
                                                   !.browser = browser,
                                                   !.os = os]]
    /\ builds' = builds + 1
    /\ UNCHANGED <<cells, inits, seenBuild, lastBuild>>
    /\ UNCHANGED <<orderVars, settingsVars, prioVars, clientVars, dnsVars>>

BeginInit(t) ==
    LET st == static_at(thr[t]) IN
    /\ thr[t].pc \in {"browser_emulator", "emulation_profile"}
    /\ OnceLock_must_initialize(cells[st.static])
    /\ cells' = [cells EXCEPT ![st.static].once = "RUNNING"]
    /\ inits' = [inits EXCEPT ![st.static] = @ + 1]
    /\ thr' = [thr EXCEPT ![t].local = st.created,
                          ![t].pc = IF thr[t].pc = "browser_emulator"
                                    THEN "browser_emulator_init"
                                    ELSE "emulation_profile_init"]
    /\ UNCHANGED <<builds, seenBuild, lastBuild>>
    /\ UNCHANGED <<orderVars, settingsVars, prioVars, clientVars, dnsVars>>

FinishInit(t) ==
    LET st == static_at(thr[t]) IN
    /\ thr[t].pc \in {"browser_emulator_init", "emulation_profile_init"}
    /\ cells' = [cells EXCEPT ![st.static] =
                     [once |-> "COMPLETE", value |-> Some(st.init)]]
    /\ thr' = [thr EXCEPT ![t].local = None,
                          ![t].pc = IF thr[t].pc = "browser_emulator_init"
                                    THEN "browser_emulator"
                                    ELSE "emulation_profile"]
    /\ UNCHANGED <<inits, builds, seenBuild, lastBuild>>
    /\ UNCHANGED <<orderVars, settingsVars, prioVars, clientVars, dnsVars>>

CloneEmulator(t) ==
    LET got == OnceLock_get(cells[static_at(thr[t]).static]) IN
    /\ thr[t].pc = "browser_emulator"
    /\ IsSome(got)
    /\ thr' = [thr EXCEPT ![t].browser_emulator = got,
                          ![t].pc = "emulation_profile"]
    /\ UNCHANGED <<cells, inits, builds, seenBuild, lastBuild>>
    /\ UNCHANGED <<orderVars, settingsVars, prioVars, clientVars, dnsVars>>

ReturnSettings(t) ==
    LET got == OnceLock_get(cells[static_at(thr[t]).static]) IN
    /\ thr[t].pc = "emulation_profile"
    /\ IsSome(got)
    /\ lastBuild' = Some([browser |-> thr[t].browser,
                     os |-> thr[t].os,
                     settings |-> build_settings(
                                      thr[t].browser, thr[t].os,
                                      Unwrap(thr[t].browser_emulator),
                                      Unwrap(got))])
    /\ seenBuild' \in {seenBuild, lastBuild}
    /\ thr' = [thr EXCEPT ![t] = ThreadIdle]
    /\ UNCHANGED <<cells, inits, builds>>
    /\ UNCHANGED <<orderVars, settingsVars, prioVars, clientVars, dnsVars>>

RegistryIdle ==
    /\ cells = [s \in Statics |-> [once |-> "INCOMPLETE", value |-> None]]
    /\ inits = [s \in Statics |-> 0]
    /\ thr = [t \in Threads |-> ThreadIdle]
    /\ builds = 0
    /\ seenBuild = None
    /\ lastBuild = None

ClientIdle ==
    /\ sel = None
    /\ cb = None
    /\ parsed = None

(***************************************************************************)
(* Selection: random_impersonate, random_impersonate_os and                *)
(* get_random_impersonate_config (imp/mod.rs).  choose() on a constant     *)
(* slice is any of its elements, so each is the set of values it can       *)
(* return.                                                                 *)
(***************************************************************************)
\* random_impersonate over a list that lacks the two Safari versions
random_impersonate_without_safari ==
    {"ChromeV144", "ChromeV145", "EdgeV144", "EdgeV145", "OperaV126",
     "OperaV127", "FirefoxV140", "FirefoxV146"}

random_impersonate ==
    {"ChromeV144", "ChromeV145", "EdgeV144", "EdgeV145", "OperaV126",
     "OperaV127", "SafariV26", "SafariV18_5", "FirefoxV140", "FirefoxV146"}

random_impersonate_os == {"Windows", "MacOS", "Linux", "Android", "IOS"}

get_random_impersonate_config(chrome, os_type) ==
    LET final_chrome ==
            IF IsSome(chrome) THEN {Unwrap(chrome)} ELSE random_impersonate
        final_os ==
            IF IsSome(os_type) THEN {Unwrap(os_type)}
            ELSE random_impersonate_os
    IN final_chrome \X final_os

GetRandomImpersonateConfig(chrome, os_type) ==
    /\ \E config \in get_random_impersonate_config(chrome, os_type) :
         sel' = Some([chrome |-> chrome, os_type |-> os_type,
                      final_chrome |-> config[1], final_os |-> config[2]])
    /\ UNCHANGED <<cb, parsed>>
    /\ UNCHANGED <<orderVars, settingsVars, prioVars, registryVars, dnsVars>>

(***************************************************************************)
(* The identifier parsers of the Python-facing crate: EmulationFromStr and *)
(* EmulationOSFromStr (src/impersonate.rs), ImpersonateFromStr and         *)
(* ImpersonateOSFromStr (src/traits.rs).  A match on the string: an arm    *)
(* per listed identifier, in impersonate.rs an arm for "random", and the   *)
(* wildcard arm, whose error formats the identifier with {:?}.  A variant  *)
(* is written by its name; each parser is the set of Results it can        *)
(* return.                                                                 *)
(***************************************************************************)
EMULATION_LIST ==
    <<
      "Chrome100", "Chrome101", "Chrome104", "Chrome105",
      "Chrome106", "Chrome107", "Chrome108", "Chrome109",
      "Chrome110", "Chrome114", "Chrome116", "Chrome117",
      "Chrome118", "Chrome119", "Chrome120", "Chrome123",
      "Chrome124", "Chrome126", "Chrome127", "Chrome128",
      "Chrome129", "Chrome130", "Chrome131", "Chrome132",
      "Chrome133", "Chrome134", "Chrome135", "Chrome136",
      "Chrome137", "SafariIos16_5", "SafariIos17_2",
      "SafariIos17_4_1", "SafariIos18_1_1", "SafariIPad18",
      "Safari15_3", "Safari15_5", "Safari15_6_1", "Safari16",
      "Safari16_5", "Safari17_0", "Safari17_2_1", "Safari17_4_1",
      "Safari17_5", "Safari18", "Safari18_2", "Safari18_3",
      "Safari18_3_1", "Safari18_5", "OkHttp3_9", "OkHttp3_11",
      "OkHttp3_13", "OkHttp3_14", "OkHttp4_9", "OkHttp4_10",
      "OkHttp4_12", "OkHttp5", "Edge101", "Edge122", "Edge127",
      "Edge131", "Edge134", "Firefox109", "Firefox117",
      "Firefox128", "Firefox133", "Firefox135", "FirefoxPrivate135",
      "FirefoxAndroid135", "Firefox136", "FirefoxPrivate136",
      "Firefox139", "Opera116", "Opera117", "Opera118", "Opera119"
    >>

EMULATION_OS_LIST == <<"Android", "IOS", "Linux", "MacOS", "Windows">>

\* input_vec.choose(..).unwrap(): any element of a slice that is not empty
get_random_element(input_vec) ==
    {input_vec[i] : i \in 1..Len(input_vec)}

\* a match on s: the arm of a listed identifier, else the "random" arm
\* where the match has one (random_arm, empty where it has none), else the
\* wildcard arm, anyhow!("<what>{:?}", s)
match_str(arms, s, random_arm, what) ==
    IF \E arm \in arms : arm[1] = s
    THEN {Ok((CHOOSE arm \in arms : arm[1] = s)[2])}
    ELSE IF s = "random" /\ random_arm # {}
    THEN {Ok(e) : e \in random_arm}
    ELSE {Err(<<what, <<"\"", s, "\"">> >>)}

EmulationFromStr_from_str(s) ==
    match_str(
      {
        <<"chrome_100", "Chrome100">>, <<"chrome_101",
        "Chrome101">>, <<"chrome_104", "Chrome104">>,
        <<"chrome_105", "Chrome105">>, <<"chrome_106",
        "Chrome106">>, <<"chrome_107", "Chrome107">>,
        <<"chrome_108", "Chrome108">>, <<"chrome_109",
        "Chrome109">>, <<"chrome_110", "Chrome110">>,
        <<"chrome_114", "Chrome114">>, <<"chrome_116",
        "Chrome116">>, <<"chrome_117", "Chrome117">>,
        <<"chrome_118", "Chrome118">>, <<"chrome_119",
        "Chrome119">>, <<"chrome_120", "Chrome120">>,
        <<"chrome_123", "Chrome123">>, <<"chrome_124",
        "Chrome124">>, <<"chrome_126", "Chrome126">>,
        <<"chrome_127", "Chrome127">>, <<"chrome_128",
        "Chrome128">>, <<"chrome_129", "Chrome129">>,
        <<"chrome_130", "Chrome130">>, <<"chrome_131",
        "Chrome131">>, <<"chrome_132", "Chrome132">>,
        <<"chrome_133", "Chrome133">>, <<"chrome_134",
        "Chrome134">>, <<"chrome_135", "Chrome135">>,
        <<"chrome_136", "Chrome136">>, <<"chrome_137",
        "Chrome137">>, <<"safari_ios_16.5", "SafariIos16_5">>,
        <<"safari_ios_17.2", "SafariIos17_2">>,
        <<"safari_ios_17.4.1", "SafariIos17_4_1">>,
        <<"safari_ios_18.1.1", "SafariIos18_1_1">>,
        <<"safari_ipad_18", "SafariIPad18">>, <<"safari_15.3",
        "Safari15_3">>, <<"safari_15.5", "Safari15_5">>,
        <<"safari_15.6.1", "Safari15_6_1">>, <<"safari_16",
        "Safari16">>, <<"safari_16.5", "Safari16_5">>,
        <<"safari_17.0", "Safari17_0">>, <<"safari_17.2.1",
        "Safari17_2_1">>, <<"safari_17.4.1", "Safari17_4_1">>,
        <<"safari_17.5", "Safari17_5">>, <<"safari_18",
        "Safari18">>, <<"safari_18.2", "Safari18_2">>,
        <<"safari_18.3", "Safari18_3">>, <<"safari_18.3.1",
        "Safari18_3_1">>, <<"safari_18.5", "Safari18_5">>,
        <<"okhttp_3.9", "OkHttp3_9">>, <<"okhttp_3.11",
        "OkHttp3_11">>, <<"okhttp_3.13", "OkHttp3_13">>,
        <<"okhttp_3.14", "OkHttp3_14">>, <<"okhttp_4.9",
        "OkHttp4_9">>, <<"okhttp_4.10", "OkHttp4_10">>,
        <<"okhttp_4.12", "OkHttp4_12">>, <<"okhttp_5", "OkHttp5">>,
        <<"edge_101", "Edge101">>, <<"edge_122", "Edge122">>,
        <<"edge_127", "Edge127">>, <<"edge_131", "Edge131">>,
        <<"edge_134", "Edge134">>, <<"firefox_109", "Firefox109">>,
        <<"firefox_117", "Firefox117">>, <<"firefox_128",
        "Firefox128">>, <<"firefox_133", "Firefox133">>,
        <<"firefox_135", "Firefox135">>, <<"firefox_private_135",
        "FirefoxPrivate135">>, <<"firefox_android_135",
        "FirefoxAndroid135">>, <<"firefox_136", "Firefox136">>,
        <<"firefox_private_136", "FirefoxPrivate136">>,
        <<"firefox_139", "Firefox139">>, <<"opera_116",
        "Opera116">>, <<"opera_117", "Opera117">>, <<"opera_118",
        "Opera118">>, <<"opera_119", "Opera119">>
      },
      s, get_random_element(EMULATION_LIST), "Invalid emulation: ")

EmulationOSFromStr_from_str(s) ==
    match_str(
      {<<"android", "Android">>, <<"ios", "IOS">>, <<"linux",
       "Linux">>, <<"macos", "MacOS">>, <<"windows", "Windows">>},
      s, get_random_element(EMULATION_OS_LIST), "Invalid emulation_os: ")

ImpersonateFromStr_from_str(s) ==
    match_str(
      {
        <<"chrome_100", "Chrome100">>, <<"chrome_101",
        "Chrome101">>, <<"chrome_104", "Chrome104">>,
        <<"chrome_105", "Chrome105">>, <<"chrome_106",
        "Chrome106">>, <<"chrome_107", "Chrome107">>,
        <<"chrome_108", "Chrome108">>, <<"chrome_109",
        "Chrome109">>, <<"chrome_114", "Chrome114">>,
        <<"chrome_116", "Chrome116">>, <<"chrome_117",
        "Chrome117">>, <<"chrome_118", "Chrome118">>,
        <<"chrome_119", "Chrome119">>, <<"chrome_120",
        "Chrome120">>, <<"chrome_123", "Chrome123">>,
        <<"chrome_124", "Chrome124">>, <<"chrome_126",
        "Chrome126">>, <<"chrome_127", "Chrome127">>,
        <<"chrome_128", "Chrome128">>, <<"chrome_129",
        "Chrome129">>, <<"chrome_130", "Chrome130">>,
        <<"chrome_131", "Chrome131">>, <<"chrome_133",
        "Chrome133">>, <<"safari_ios_16.5", "SafariIos16_5">>,
        <<"safari_ios_17.2", "SafariIos17_2">>,
        <<"safari_ios_17.4.1", "SafariIos17_4_1">>,
        <<"safari_ios_18.1.1", "SafariIos18_1_1">>,
        <<"safari_ipad_18", "SafariIPad18">>, <<"safari_15.3",
        "Safari15_3">>, <<"safari_15.5", "Safari15_5">>,
        <<"safari_15.6.1", "Safari15_6_1">>, <<"safari_16",
        "Safari16">>, <<"safari_16.5", "Safari16_5">>,
        <<"safari_17.0", "Safari17_0">>, <<"safari_17.2.1",
        "Safari17_2_1">>, <<"safari_17.4.1", "Safari17_4_1">>,
        <<"safari_17.5", "Safari17_5">>, <<"safari_18",
        "Safari18">>, <<"safari_18.2", "Safari18_2">>,
        <<"okhttp_3.9", "OkHttp3_9">>, <<"okhttp_3.11",
        "OkHttp3_11">>, <<"okhttp_3.13", "OkHttp3_13">>,
        <<"okhttp_3.14", "OkHttp3_14">>, <<"okhttp_4.9",
        "OkHttp4_9">>, <<"okhttp_4.10", "OkHttp4_10">>,
        <<"okhttp_5", "OkHttp5">>, <<"edge_101", "Edge101">>,
        <<"edge_122", "Edge122">>, <<"edge_127", "Edge127">>,
        <<"edge_131", "Edge131">>, <<"firefox_109", "Firefox109">>,
        <<"firefox_117", "Firefox117">>, <<"firefox_128",
        "Firefox128">>, <<"firefox_133", "Firefox133">>,
        <<"firefox_135", "Firefox135">>
      },
      s, {}, "Invalid impersonate: ")

ImpersonateOSFromStr_from_str(s) ==
    match_str(
      {<<"android", "Android">>, <<"ios", "IOS">>, <<"linux",
       "Linux">>, <<"macos", "MacOS">>, <<"windows", "Windows">>},
      s, {}, "Invalid impersonate_os: ")

\* one call of a parser on an identifier
FromStr(parser, s) ==
    /\ \E result \in
           CASE parser = "EmulationFromStr" -> EmulationFromStr_from_str(s)
             [] parser = "EmulationOSFromStr" ->
                    EmulationOSFromStr_from_str(s)
             [] parser = "ImpersonateFromStr" ->
                    ImpersonateFromStr_from_str(s)
             [] parser = "ImpersonateOSFromStr" ->
                    ImpersonateOSFromStr_from_str(s) :
         parsed' = Some([parser |-> parser, s |-> s, result |-> result])
    /\ UNCHANGED <<sel, cb>>
    /\ UNCHANGED <<orderVars, settingsVars, prioVars, registryVars, dnsVars>>

(***************************************************************************)
(* configure_impersonate of the edge, opera, safari and firefox modules.   *)
(* reqwest's ClientBuilder is outside this source tree: it is a record of  *)
(* what its setters were given, with response decoding of gzip, brotli     *)
(* and zstd enabled until no_gzip / no_brotli / no_zstd.                   *)
(***************************************************************************)
ClientBuilder_new ==
    [browser_emulator |-> None,
     emulation_profile |-> None,
     http2_initial_stream_window_size |-> None,
     http2_initial_connection_window_size |-> None,
     http2_max_concurrent_streams |-> None,
     http2_max_frame_size |-> None,
     http2_max_header_list_size |-> None,
     http2_header_table_size |-> None,
     http2_enable_push |-> None,
     http2_no_rfc7540_priorities |-> None,
     http2_settings_order |-> None,
     http2_headers_pseudo_order |-> None,
     http2_headers_stream_dependency |-> None,
     http2_priorities |-> None,
     accept_encoding |-> <<>>,
     gzip |-> TRUE,
     brotli |-> TRUE,
     zstd |-> TRUE]

\* the four modules' functions differ in two setters: firefox hands over
\* max_header_list_size only when the profile has one, the others fall back
\* to 262144; only safari hands over no_rfc7540_priorities
configure_impersonate(module, builder, browser_settings) ==
    LET http2 == browser_settings.http2
        IfSome(option, old) == IF IsSome(option) THEN option ELSE old
    IN [builder EXCEPT
          !.browser_emulator = Some(browser_settings.browser_emulator),
          !.emulation_profile = Some(browser_settings.emulation_profile),
          !.http2_initial_stream_window_size =
              http2.initial_stream_window_size,
          !.http2_initial_connection_window_size =
              http2.initial_connection_window_size,
          !.http2_max_concurrent_streams = http2.max_concurrent_streams,
          !.http2_max_frame_size = http2.max_frame_size,
          !.http2_max_header_list_size =
              IF module = "firefox"
              THEN IfSome(http2.max_header_list_size, @)
              ELSE IfSome(http2.max_header_list_size,
                          Some(U32FromNat(262144))),
          !.http2_header_table_size = http2.header_table_size,
          !.http2_enable_push = http2.enable_push,
          !.http2_no_rfc7540_priorities =
              IF module = "safari" THEN http2.no_rfc7540_priorities ELSE @,
          !.accept_encoding = browser_settings.accept_encoding,
          !.gzip = IF browser_settings.gzip THEN @ ELSE FALSE,
          !.brotli = IF browser_settings.brotli THEN @ ELSE FALSE,
          !.zstd = IF browser_settings.zstd THEN @ ELSE FALSE,
          !.http2_settings_order = IfSome(http2.settings_order, @),
          !.http2_headers_pseudo_order =
              IfSome(http2.headers_pseudo_order, @),
          !.http2_headers_stream_dependency =
              IfSome(http2.headers_stream_dependency, @),
          !.http2_priorities = IfSome(http2.priorities, @)]

\* configure_impersonate on a new builder, in a process where any of the
\* statics may already hold its value
ConfigureImpersonate(browser, os_type) ==
    /\ builds < MaxConfigures
    /\ IF IsSome(cb) THEN IsSome(Unwrap(cb).sent) ELSE TRUE
    /\ \E config \in get_random_impersonate_config(Some(browser), os_type) :
       \E st \in {statics_of(config[1])} :
       \E run \in {{x \in {st.browser_emulator, st.emulation_profile} :
                       OnceLock_must_initialize(cells[x.static])}} :
         LET initialized(x) ==
                 IF x \in run
                 THEN [once |-> "COMPLETE", value |-> Some(x.init)]
                 ELSE cells[x.static]
             browser_settings ==
                 build_settings(
                     config[1], config[2],
                     Unwrap(OnceLock_get(initialized(st.browser_emulator))),
                     Unwrap(OnceLock_get(initialized(st.emulation_profile))))
         IN /\ sel' = Some([chrome |-> Some(browser), os_type |-> os_type,
                            final_chrome |-> config[1],
                            final_os |-> config[2]])
            /\ cells' = [s \in Statics |->
                            IF \E x \in run : x.static = s
                            THEN initialized(CHOOSE x \in run : x.static = s)
                            ELSE cells[s]]
            /\ inits' = [s \in Statics |->
                            IF \E x \in run : x.static = s
                            THEN inits[s] + 1 ELSE inits[s]]
            /\ cb' = Some([builder |->
                               configure_impersonate(
                                   impersonate_module(browser),
                                   ClientBuilder_new, browser_settings),
                           sent |-> None])
    /\ builds' = builds + 1
    /\ UNCHANGED <<thr, seenBuild, lastBuild, parsed>>
    /\ UNCHANGED <<orderVars, settingsVars, prioVars, dnsVars>>

(***************************************************************************)
(* What a client built from the builder sends when a connection opens.     *)
(* hyper and the h2 connection are outside this source tree.  The builder  *)
(* values go through the Settings setters; a value the builder was not     *)
(* given is the transport's default, either absent or some value, and both *)
(* are possible here for all of them.  The WINDOW_UPDATE that follows the  *)
(* SETTINGS frame raises the connection window from the protocol's 65535   *)
(* (imp/firefox/mod.rs:238-240); headers go out in the pseudo order.       *)
(***************************************************************************)
handshake(builder, defaults) ==
    LET IfSome(option, old) == IF IsSome(option) THEN option ELSE old
        Bool(option) ==
            IF IsSome(option)
            THEN Some(U32(0, IF Unwrap(option) THEN 1 ELSE 0))
            ELSE None
        window == builder.http2_initial_connection_window_size
    IN [settings |->
            [defaults EXCEPT
               !.header_table_size =
                   IfSome(builder.http2_header_table_size, @),
               !.enable_push = IfSome(Bool(builder.http2_enable_push), @),
               !.max_concurrent_streams =
                   IfSome(builder.http2_max_concurrent_streams, @),
               !.initial_window_size =
                   IfSome(builder.http2_initial_stream_window_size, @),
               !.max_frame_size = IfSome(builder.http2_max_frame_size, @),
               !.max_header_list_size =
                   IfSome(builder.http2_max_header_list_size, @),
               !.no_rfc7540_priorities =
                   IfSome(Bool(builder.http2_no_rfc7540_priorities), @),
               !.settings_order =
                   IF IsSome(builder.http2_settings_order)
                   THEN Unwrap(builder.http2_settings_order) ELSE @],
        window_update |->
            IF IsSome(window)
            THEN Some(U32FromNat(Unwrap(window)[1] * U16Wrap
                                 + Unwrap(window)[2] - 65535))
            ELSE None,
        pseudo_order |-> builder.http2_headers_pseudo_order]

Handshake ==
    /\ IsSome(cb)
    /\ Unwrap(cb).sent = None
    /\ \E defaults \in
          {Settings_default,
           [Settings_default EXCEPT
              !.header_table_size = Some(U32FromNat(4096)),
              !.enable_push = Some(U32FromNat(1)),
              !.max_concurrent_streams = Some(U32FromNat(1000)),
              !.initial_window_size = Some(U32FromNat(65535)),
              !.max_frame_size = Some(DEFAULT_MAX_FRAME_SIZE),
              !.max_header_list_size = Some(U32FromNat(16384)),
              !.enable_connect_protocol = Some(U32FromNat(0)),
              !.no_rfc7540_priorities = Some(U32FromNat(0))]} :
         LET hs == handshake(Unwrap(cb).builder, defaults) IN
         /\ settings' = hs.settings
         /\ frame' = Settings_encode(hs.settings)
         /\ cb' = Some([Unwrap(cb) EXCEPT
                          !.sent = Some([window_update |-> hs.window_update,
                                         pseudo_order |-> hs.pseudo_order])])
    /\ phase' = "encoded"
    /\ UNCHANGED <<loaded, sel, parsed>>
    /\ UNCHANGED <<orderVars, prioVars, registryVars, dnsVars>>

(***************************************************************************)
(* DnsCache (primp-reqwest dns/cache.rs).  All clones of a DnsCache hold   *)
(* the same Arc<CacheInner>, so there is one map of entries; every         *)
(* CacheInner method runs under the RwLock and is one step, with           *)
(* Instant::now() read inside it.  resolve is two steps on a miss: the     *)
(* lookup, and the inner resolver's answer followed by the insert.         *)
(* Instants are ticks of a clock and Durations numbers of ticks.           *)
(***************************************************************************)
\* the DnsCache and the clone of it, cache1 and cache2 of
\* test_clone_shares_cache
Handles == {1, 2}
\* ticks of the clock in one run
MaxTime == 3
\* default_ttl of the DnsCache, in ticks
DefaultTtl == 2
\* invocations of the inner resolver for one name
MaxInnerCalls == 2

\* CachedEntry_is_expired with the instant of expiry still counted as valid
CachedEntry_is_expired_after(entry) == now > entry.expires_at

CachedEntry_is_expired(entry) == now >= entry.expires_at

\* CacheInner_get without the test of is_expired
CacheInner_get_any(name) ==
    IF entries[name] = None
    THEN None
    ELSE Some(Unwrap(entries[name]).addrs)

CacheInner_get(name) ==
    IF entries[name] = None
    THEN None
    ELSE IF CachedEntry_is_expired(Unwrap(entries[name]))
    THEN None
    ELSE Some(Unwrap(entries[name]).addrs)

\* CacheInner_insert with an entry that expires as it is stored
CacheInner_insert_without_ttl(name, addrs, ttl) ==
    [entries EXCEPT ![name] = Some([addrs |-> addrs, expires_at |-> now])]

\* the value is CachedEntry::new(addrs, ttl), built under the write lock
CacheInner_insert(name, addrs, ttl) ==
    [entries EXCEPT
       ![name] = Some([addrs |-> addrs, expires_at |-> now + ttl])]

\* CacheInner_purge_expired with the test of retain the other way round
CacheInner_purge_unexpired ==
    [name \in DOMAIN entries |->
        IF entries[name] # None
           /\ ~CachedEntry_is_expired(Unwrap(entries[name]))
        THEN None
        ELSE entries[name]]

CacheInner_purge_expired ==
    [name \in DOMAIN entries |->
        IF entries[name] # None
           /\ CachedEntry_is_expired(Unwrap(entries[name]))
        THEN None
        ELSE entries[name]]

CacheInner_len == Cardinality({name \in DOMAIN entries : entries[name] # None})

\* resolve up to the inner resolver: a hit returns at once, a miss leaves
\* the future waiting for the inner resolver
DnsCache_resolve(h, name) ==
    /\ h \in 1..handles
    /\ pending[h] = None
    /\ LET cached == CacheInner_get(name) IN
       IF IsSome(cached)
       THEN /\ done' = Some([handle |-> h, name |-> name, hit |-> TRUE,
                             result |-> Ok(Unwrap(cached))])
            /\ completed' =
                   [completed EXCEPT
                      ![name] = Some(Unwrap(entries[name]).expires_at)]
            /\ UNCHANGED pending
       ELSE /\ calls[name]
                 + Cardinality({g \in DOMAIN pending :
                                    pending[g] = Some(name)})
                 < MaxInnerCalls
            /\ pending' = [pending EXCEPT ![h] = Some(name)]
            /\ UNCHANGED <<done, completed>>
    /\ UNCHANGED <<now, entries, handles, calls, stored>>
    /\ UNCHANGED <<orderVars, settingsVars, prioVars, registryVars,
                   clientVars>>

\* InnerResolved with an empty answer cached for a failed resolution
InnerResolved_caching_errors(h, answer) ==
    /\ h \in 1..handles
    /\ IsSome(pending[h])
    /\ LET name == Unwrap(pending[h]) IN
       /\ calls' = [calls EXCEPT ![name] = @ + 1]
       /\ done' = Some([handle |-> h, name |-> name, hit |-> FALSE,
                        result |-> answer])
       /\ IF answer.tag = "Ok"
          THEN /\ entries' =
                      CacheInner_insert(name, answer.settings, DefaultTtl)
               /\ stored' = [stored EXCEPT ![name] = @ \cup {answer.settings}]
               /\ completed' =
                      [completed EXCEPT ![name] = Some(now + DefaultTtl)]
          ELSE /\ entries' = CacheInner_insert(name, <<>>, DefaultTtl)
               /\ UNCHANGED <<stored, completed>>
    /\ pending' = [pending EXCEPT ![h] = None]
    /\ UNCHANGED <<now, handles>>
    /\ UNCHANGED <<orderVars, settingsVars, prioVars, registryVars,
                   clientVars>>

\* the async block: inner.resolve(name).await?, then cache.insert
InnerResolved(h, answer) ==
    /\ h \in 1..handles
    /\ IsSome(pending[h])
    /\ LET name == Unwrap(pending[h]) IN
       /\ calls' = [calls EXCEPT ![name] = @ + 1]
       /\ done' = Some([handle |-> h, name |-> name, hit |-> FALSE,
                        result |-> answer])
       /\ IF answer.tag = "Ok"
          THEN /\ entries' =
                      CacheInner_insert(name, answer.settings, DefaultTtl)
               /\ stored' = [stored EXCEPT ![name] = @ \cup {answer.settings}]
               /\ completed' =
                      [completed EXCEPT ![name] = Some(now + DefaultTtl)]
          ELSE UNCHANGED <<entries, stored, completed>>
    /\ pending' = [pending EXCEPT ![h] = None]
    /\ UNCHANGED <<now, handles>>
    /\ UNCHANGED <<orderVars, settingsVars, prioVars, registryVars,
                   clientVars>>

\* cache.cache.insert(name, addrs, ttl) with the ttl of the DnsCache, as
\* the tests of the module call it
Insert(name, addrs) ==
    /\ entries' = CacheInner_insert(name, addrs, DefaultTtl)
    /\ stored' = [stored EXCEPT ![name] = @ \cup {addrs}]
    /\ UNCHANGED <<now, handles, pending, calls, done, completed>>
    /\ UNCHANGED <<orderVars, settingsVars, prioVars, registryVars,
                   clientVars>>

DnsCache_clear ==
    /\ entries' = [name \in DOMAIN entries |-> None]
    /\ completed' = [name \in DOMAIN entries |-> None]
    /\ UNCHANGED <<now, handles, pending, calls, done, stored>>
    /\ UNCHANGED <<orderVars, settingsVars, prioVars, registryVars,
                   clientVars>>

DnsCache_purge_expired ==
    /\ entries' = CacheInner_purge_expired
    /\ UNCHANGED <<now, handles, pending, calls, done, completed, stored>>
    /\ UNCHANGED <<orderVars, settingsVars, prioVars, registryVars,
                   clientVars>>

DnsCache_clone ==
    /\ handles < Cardinality(Handles)
    /\ handles' = handles + 1
    /\ UNCHANGED <<now, entries, pending, calls, done, completed, stored>>
    /\ UNCHANGED <<orderVars, settingsVars, prioVars, registryVars,
                   clientVars>>

\* time passes between two calls
Tick ==
    /\ now < MaxTime
    /\ now' = now + 1
    /\ UNCHANGED <<entries, handles, pending, calls, done, completed,
                   stored>>
    /\ UNCHANGED <<orderVars, settingsVars, prioVars, registryVars,
                   clientVars>>

\* DnsCache::new: no entries, one handle, nothing resolved yet
DnsIdle ==
    /\ now = 0
    /\ entries = [name \in {"example.com", "test.com"} |-> None]
    /\ handles = 1
    /\ pending = [h \in Handles |-> None]
    /\ calls = [name \in {"example.com", "test.com"} |-> 0]
    /\ done = None
    /\ completed = [name \in {"example.com", "test.com"} |-> None]
    /\ stored = [name \in {"example.com", "test.com"} |-> {}]

(***************************************************************************)
(* Specifications                                                          *)
(***************************************************************************)
InitOrder ==
    /\ OrderIdle /\ SettingsIdle /\ PrioIdle
    /\ RegistryIdle /\ ClientIdle /\ DnsIdle

NextOrder ==
    \/ \E id \in SettingIds : SobPush(id)
    \/ \E iter \in ExtendInputs : SobExtend(iter)
    \/ SobBuild
    \/ SobBuildWithoutExtend

SpecOrder == InitOrder /\ [][NextOrder]_vars

InitEncode ==
    /\ OrderIdle
    /\ PrioIdle
    /\ RegistryIdle /\ ClientIdle /\ DnsIdle
    /\ settings \in {Settings_default, Settings_ack}
    /\ frame = NoFrame
    /\ loaded = NotLoaded
    /\ phase = "config"

NextEncode ==
    \/ \E size \in InitialWindowSizeArgs : set_initial_window_size(size)
    \/ \E max \in MaxConcurrentStreamsArgs : set_max_concurrent_streams(max)
    \/ \E size \in MaxFrameSizeArgs : set_max_frame_size(size)
    \/ \E size \in MaxHeaderListSizeArgs : set_max_header_list_size(size)
    \/ \E enable \in BOOLEAN : set_enable_push(enable)
    \/ \E val \in EnableConnectProtocolArgs : set_enable_connect_protocol(val)
    \/ \E val \in NoRfc7540PrioritiesArgs : set_no_rfc7540_priorities(val)
    \/ \E size \in HeaderTableSizeArgs : set_header_table_size(size)
    \/ \E o \in ConfiguredOrders : set_settings_order(o)
    \/ Encode
    \/ Load

SpecEncode == InitEncode /\ [][NextEncode]_vars

InitLoad ==
    /\ OrderIdle
    /\ PrioIdle
    /\ RegistryIdle /\ ClientIdle /\ DnsIdle
    /\ settings = Settings_default
    /\ \E h \in InputHeads : frame = [head |-> h, length |-> 0, payload |-> <<>>]
    /\ loaded = NotLoaded
    /\ phase = "input"

NextLoad ==
    \/ \E f \in WireFields : ReceiveField(f)
    \/ ReceiveOctet
    \/ Load

SpecLoad == InitLoad /\ [][NextLoad]_vars

InitPrio ==
    /\ OrderIdle /\ SettingsIdle /\ PrioIdle
    /\ RegistryIdle /\ ClientIdle /\ DnsIdle

NextPrio ==
    \/ \E priority \in PrioInputs : PbPush(priority)
    \/ \E ps \in PrioExtendInputs : PbExtend(ps)
    \/ PbBuild
    \/ \E head \in {Head_new("Priority", 0, sid) : sid \in {0, 1, 3}},
          payload \in {<<>>, <<0, 0, 0, 0, 255>>, <<0, 0, 0, 1, 15>>,
                       <<128, 0, 0, 3, 0>>, <<128, 0, 0, 0>>,
                       <<0, 0, 0, 1, 15, 0>>} :
           PriorityLoad(head, payload)

SpecPrio == InitPrio /\ [][NextPrio]_vars

InitRegistry ==
    /\ OrderIdle /\ SettingsIdle /\ PrioIdle
    /\ RegistryIdle /\ ClientIdle /\ DnsIdle

NextRegistry ==
    \/ \E t \in Threads,
          browser \in {"EdgeV144", "SafariV26", "FirefoxV140"},
          os \in {"MacOS", "IOS"} :
           CallBuildSettings(t, browser, os)
    \/ \E t \in Threads : BeginInit(t)
    \/ \E t \in Threads : FinishInit(t)
    \/ \E t \in Threads : CloneEmulator(t)
    \/ \E t \in Threads : ReturnSettings(t)

SpecRegistry == InitRegistry /\ [][NextRegistry]_vars

NextConfigure ==
    \/ \E browser \in BuiltBrowsers,
          os_type \in {None} \cup {Some(os) : os \in ImpersonateOS} :
           ConfigureImpersonate(browser, os_type)
    \/ Handshake

SpecConfigure == InitRegistry /\ [][NextConfigure]_vars

NextSelect ==
    \E chrome \in {None} \cup {Some(b) : b \in Impersonate},
       os_type \in {None} \cup {Some(os) : os \in ImpersonateOS} :
        GetRandomImpersonateConfig(chrome, os_type)

SpecSelect == InitRegistry /\ [][NextSelect]_vars

NextParse ==
    \E parser \in {"EmulationFromStr", "EmulationOSFromStr",
                   "ImpersonateFromStr", "ImpersonateOSFromStr"},
       s \in {"chrome_144", "firefox_140", "chrome_137", "firefox_135",
              "safari_ios_17.2", "chrome_200", "random", "windows",
              "macos", "linux", "android", "ios", "solaris", "Windows",
              ""} :
        FromStr(parser, s)

SpecParse == InitRegistry /\ [][NextParse]_vars

\* the inner resolver answers with addresses (the ports of test_addr) or
\* with an error
NextDns ==
    \/ \E h \in Handles, name \in DOMAIN entries :
           DnsCache_resolve(h, name)
    \/ \E h \in Handles,
          answer \in {Ok(<<8080>>), Ok(<<8081>>), Err("resolve error")} :
           InnerResolved(h, answer)
    \/ Insert("test.com", <<8080>>)
    \/ DnsCache_clear
    \/ DnsCache_purge_expired
    \/ DnsCache_clone
    \/ Tick

SpecDns == InitRegistry /\ [][NextDns]_vars

(***************************************************************************)
(* Vocabulary of the properties                                            *)
(***************************************************************************)
Count(s, x) == Cardinality({i \in 1..Len(s) : s[i] = x})
Occurs(s, x) == \E i \in 1..Len(s) : s[i] = x
FirstIndex(s, x) == CHOOSE i \in 1..Len(s) : s[i] = x /\ \A j \in 1..(i - 1) : s[j] # x

\* s without every element that occurred earlier in s
RECURSIVE FirstOccurrences(_)
FirstOccurrences(s) ==
    IF s = <<>> THEN <<>>
    ELSE LET init == FirstOccurrences(SubSeq(s, 1, Len(s) - 1))
             last == s[Len(s)]
         IN IF Occurs(init, last) THEN init ELSE Append(init, last)

\* the value a Settings holds for a setting id
ValueOf(s, id) ==
    CASE id = 1 -> s.header_table_size
      [] id = 2 -> s.enable_push
      [] id = 3 -> s.max_concurrent_streams
      [] id = 4 -> s.initial_window_size
      [] id = 5 -> s.max_frame_size
      [] id = 6 -> s.max_header_list_size
      [] id = 8 -> s.enable_connect_protocol
      [] id = 9 -> s.no_rfc7540_priorities

ValueMap(s) == [id \in {1, 2, 3, 4, 5, 6, 8, 9} |-> ValueOf(s, id)]

\* the six octets of a {u16 id}{u32 value} field, most significant first
FieldOctets(id, v) ==
    <<id \div 256, id % 256, v[1] \div 256, v[1] % 256, v[2] \div 256, v[2] % 256>>

\* the k-th whole field of a payload, as id and value
FieldAt(payload, k) ==
    LET o == 6 * (k - 1) IN
    [id |-> payload[o + 1] * 256 + payload[o + 2],
     val |-> <<payload[o + 3] * 256 + payload[o + 4],
               payload[o + 5] * 256 + payload[o + 6]>>]

NumFields(payload) == Len(payload) \div 6
IsAckHead(h) == h.flag % 2 = 1

(***************************************************************************)
(* C1  SettingsOrderBuilder.push is idempotent per id: whatever the push   *)
(* and extend calls were, every pushed id occurs exactly once in the       *)
(* builder's ids and in the built order, at the position of its first      *)
(* push (as many ids before it as distinct ids were pushed before its      *)
(* first push), and two pushed ids stand in the order of their first       *)
(* pushes.                                                                 *)
(***************************************************************************)
RespectsFirstPush(o) ==
    /\ \A i \in 1..Len(sobPushed) :
         LET x == sobPushed[i]
             f == FirstIndex(sobPushed, x)
         IN /\ Count(o, x) = 1
            /\ FirstIndex(o, x) = Cardinality({sobPushed[k] : k \in 1..f})
    /\ \A i, j \in 1..Len(sobPushed) :
         FirstIndex(sobPushed, sobPushed[i]) < FirstIndex(sobPushed, sobPushed[j])
           => FirstIndex(o, sobPushed[i]) < FirstIndex(o, sobPushed[j])

C1_PushIdempotent ==
    /\ RespectsFirstPush(sob.ids)
    /\ orderBy # "none" => RespectsFirstPush(Unwrap(order))

\* an id pushed again after a different id, and the order built
C1_Witness ==
    /\ orderBy # "none"
    /\ \E i, j, k \in 1..Len(sobPushed) :
         /\ i < j /\ j < k
         /\ sobPushed[i] = sobPushed[k]
         /\ sobPushed[j] # sobPushed[i]

(***************************************************************************)
(* C2  build() returns the pushed ids in first-push order followed by      *)
(* every id that was not pushed, in canonical order 1,2,3,4,5,6,8,9; so    *)
(* the order holds each of the 8 known ids exactly once.                   *)
(***************************************************************************)
C2_BuildComplete ==
    orderBy = "build" =>
      LET o == Unwrap(order)
          NotPushed(x) == ~Occurs(sobPushed, x)
      IN /\ o = FirstOccurrences(sobPushed)
                  \o SelectSeq(<<1, 2, 3, 4, 5, 6, 8, 9>>, NotPushed)
         /\ Len(o) = 8
         /\ \A x \in {1, 2, 3, 4, 5, 6, 8, 9} : Count(o, x) = 1

\* build() after pushes that repeat an id, start away from the canonical
\* order and leave ids out
C2_Witness ==
    /\ orderBy = "build"
    /\ Len(sobPushed) > Len(sob.ids)
    /\ Len(sob.ids) \in 2..7
    /\ sob.ids[1] > sob.ids[2]

(***************************************************************************)
(* C3  build_without_extend() returns exactly the distinct pushed ids in   *)
(* first-push order and no id that was not pushed.                         *)
(***************************************************************************)
C3_BuildWithoutExtendExact ==
    orderBy = "build_without_extend" =>
      /\ Unwrap(order) = FirstOccurrences(sobPushed)
      /\ \A i \in 1..Len(Unwrap(order)) : Occurs(sobPushed, Unwrap(order)[i])

\* build_without_extend() after pushes that repeat an id and leave ids out
C3_Witness ==
    /\ orderBy = "build_without_extend"
    /\ Len(sobPushed) > Len(Unwrap(order))
    /\ Len(Unwrap(order)) \in 2..7

(***************************************************************************)
(* C4  Settings.encode emits one 6-octet {u16 id}{u32 value} field per id  *)
(* of the configured order whose value is present, in the sequence of the  *)
(* configured order; ids with an absent value give no field; the length    *)
(* in the frame head is 6 times the number of fields.                      *)
(***************************************************************************)
C4_EncodeFollowsOrder ==
    phase \in {"encoded", "loaded"} =>
      LET Present(id) == ValueOf(settings, id) # <<>>
          emitted == SelectSeq(settings.settings_order, Present)
      IN /\ \A id \in {1, 2, 3, 4, 5, 6, 8, 9} :
              Count(settings.settings_order, id) <= 1
         /\ Len(frame.payload) = 6 * Len(emitted)
         /\ frame.length = 6 * Len(emitted)
         /\ \A k \in 1..Len(emitted) :
              SubSeq(frame.payload, 6 * k - 5, 6 * k)
                = FieldOctets(emitted[k], ValueOf(settings, emitted[k])[1])

\* an encoded frame whose order is not ascending, with at least two fields
\* emitted, a present value whose id the order leaves out and an id of the
\* order whose value is absent
C4_Witness ==
    /\ phase = "encoded"
    /\ Len(frame.payload) >= 12
    /\ frame.payload[2] > frame.payload[8]
    /\ \E id \in {1, 2, 3, 4, 5, 6, 8, 9} :
         ValueOf(settings, id) # <<>> /\ ~Occurs(settings.settings_order, id)
    /\ \E id \in {1, 2, 3, 4, 5, 6, 8, 9} :
         ValueOf(settings, id) = <<>> /\ Occurs(settings.settings_order, id)

(***************************************************************************)
(* C5  Round trip.  As claimed: loading the frame encode produced gives a  *)
(* Settings with the same value (present and equal, or absent) for each of *)
(* the 8 ids, for every Settings value and every configured order.         *)
(***************************************************************************)
RoundTrips ==
    /\ loaded.tag = "Ok"
    /\ ValueMap(loaded.settings) = ValueMap(settings)

C5_RoundTripAnySettings ==
    (phase = "loaded" /\ frame.head.kind = "Settings") => RoundTrips

\* what load accepts of a value
Loadable(id, v) ==
    CASE id \in {2, 8} -> v \in {<<0, 0>>, <<0, 1>>}
      [] id = 4 -> v[1] <= 32767
      [] id = 5 -> (v[1] >= 1 \/ v[2] >= 16384) /\ v[1] <= 255
      [] OTHER -> TRUE

RoundTripPre(s) ==
    /\ \A id \in {1, 2, 3, 4, 5, 6, 8, 9} :
         ValueOf(s, id) # <<>> =>
           /\ Occurs(s.settings_order, id)
           /\ Loadable(id, ValueOf(s, id)[1])
    /\ s.flags % 2 = 1 => \A id \in {1, 2, 3, 4, 5, 6, 8, 9} : ValueOf(s, id) = <<>>

\* C5 as claimed, read in its favour: only for a Settings that is not an ACK
\* and whose present values are all ones load accepts, whatever the order
C5_RoundTripAnyOrder ==
    ( /\ phase = "loaded"
      /\ frame.head.kind = "Settings"
      /\ settings.flags % 2 = 0
      /\ \A id \in {1, 2, 3, 4, 5, 6, 8, 9} :
           ValueOf(settings, id) # <<>> => Loadable(id, ValueOf(settings, id)[1]) )
    => RoundTrips

(***************************************************************************)
(* C5 as amended: loading the frame encode produced gives the same value   *)
(* for each of the 8 ids exactly when the configured order holds the id of *)
(* every present value, every present value is one load accepts, and the   *)
(* Settings is not an ACK that carries a value.                            *)
(***************************************************************************)
C5_RoundTripWhenEmittedAndLoadable ==
    (phase = "loaded" /\ frame.head.kind = "Settings") =>
      (RoundTrips <=> RoundTripPre(settings))

\* a round trip of at least three values under an order that does not start
\* with id 1
C5_Witness ==
    /\ phase = "loaded"
    /\ frame.head.kind = "Settings"
    /\ RoundTripPre(settings)
    /\ loaded.tag = "Ok"
    /\ Len(frame.payload) >= 18
    /\ frame.payload[2] # 1
(***************************************************************************)
(* C6  Settings::load checks the envelope in a fixed precedence: a         *)
(* non-zero stream id gives InvalidStreamId whatever the flags and the     *)
(* payload; else an ACK with a payload gives InvalidPayloadLength and an   *)
(* ACK without one the ack-only Settings with every value absent; else a   *)
(* payload that is not a multiple of 6 octets gives                        *)
(* InvalidPayloadAckSettings.                                              *)
(***************************************************************************)
C6_EnvelopePrecedence ==
    (phase = "loaded" /\ frame.head.kind = "Settings") =>
      LET h == frame.head
          p == frame.payload
      IN /\ h.stream_id # 0 => loaded = [tag |-> "Err", error |-> "InvalidStreamId"]
         /\ (h.stream_id = 0 /\ IsAckHead(h) /\ p # <<>>)
              => loaded = [tag |-> "Err", error |-> "InvalidPayloadLength"]
         /\ (h.stream_id = 0 /\ IsAckHead(h) /\ p = <<>>)
              => /\ loaded.tag = "Ok"
                 /\ loaded.settings.flags % 2 = 1
                 /\ \A id \in {1, 2, 3, 4, 5, 6, 8, 9} :
                      ValueOf(loaded.settings, id) = <<>>
         /\ (h.stream_id = 0 /\ ~IsAckHead(h) /\ Len(p) % 6 # 0)
              => loaded = [tag |-> "Err", error |-> "InvalidPayloadAckSettings"]

\* a frame that breaks all three rules at once is reported as InvalidStreamId
C6_Witness ==
    /\ phase = "loaded"
    /\ frame.head.stream_id # 0
    /\ IsAckHead(frame.head)
    /\ Len(frame.payload) % 6 # 0
    /\ loaded = [tag |-> "Err", error |-> "InvalidStreamId"]

(***************************************************************************)
(* C7  A non-ACK payload of whole fields on stream 0 is rejected with      *)
(* InvalidSettingValue exactly when some field has EnablePush or           *)
(* EnableConnectProtocol outside {0,1}, InitialWindowSize above 2^31-1 or  *)
(* MaxFrameSize outside [16384, 2^24-1]; every other one loads.            *)
(***************************************************************************)
OutOfRange(f) ==
    \/ f.id \in {2, 8} /\ f.val \notin {<<0, 0>>, <<0, 1>>}
    \/ f.id = 4 /\ f.val[1] >= 32768
    \/ f.id = 5 /\ ((f.val[1] = 0 /\ f.val[2] < 16384) \/ f.val[1] >= 256)

WholeFieldsOnStreamZero ==
    /\ phase = "loaded"
    /\ frame.head.kind = "Settings"
    /\ frame.head.stream_id = 0
    /\ ~IsAckHead(frame.head)
    /\ Len(frame.payload) % 6 = 0

C7_RejectsOutOfRange ==
    WholeFieldsOnStreamZero =>
      LET bad == \E k \in 1..NumFields(frame.payload) :
                     OutOfRange(FieldAt(frame.payload, k))
      IN /\ bad <=> loaded = [tag |-> "Err", error |-> "InvalidSettingValue"]
         /\ ~bad <=> loaded.tag = "Ok"

\* a payload whose first field is in range and whose second is not
C7_Witness ==
    /\ WholeFieldsOnStreamZero
    /\ NumFields(frame.payload) = 2
    /\ FieldAt(frame.payload, 1).id \in {1, 2, 3, 4, 5, 6, 8, 9}
    /\ ~OutOfRange(FieldAt(frame.payload, 1))
    /\ OutOfRange(FieldAt(frame.payload, 2))
    /\ loaded = [tag |-> "Err", error |-> "InvalidSettingValue"]

(***************************************************************************)
(* C8  Settings::load ignores unknown setting ids.  As claimed, for every  *)
(* frame: the result of loading a payload of whole fields is the result of *)
(* loading it without its fields of unknown id, and inserting a field of   *)
(* unknown id (0, 7, 10, 258), whatever its value, at any field boundary   *)
(* does not change it.                                                     *)
(***************************************************************************)
RECURSIVE KnownFieldsOnly(_)
KnownFieldsOnly(payload) ==
    IF Len(payload) < 6 THEN <<>>
    ELSE (IF FieldAt(payload, 1).id \in {1, 2, 3, 4, 5, 6, 8, 9}
          THEN SubSeq(payload, 1, 6) ELSE <<>>)
         \o KnownFieldsOnly(SubSeq(payload, 7, Len(payload)))

InsertField(payload, k, octets) ==
    SubSeq(payload, 1, 6 * k) \o octets \o SubSeq(payload, 6 * k + 1, Len(payload))

UnknownFields ==
    {FieldOctets(id, v) : id \in {0, 7, 10, 258},
                          v \in {<<0, 0>>, <<0, 2>>, <<256, 0>>, <<65535, 65535>>}}

UnknownIdsIgnored ==
    /\ loaded = Settings_load(frame.head, KnownFieldsOnly(frame.payload))
    /\ \A k \in 0..NumFields(frame.payload) : \A u \in UnknownFields :
         Settings_load(frame.head, InsertField(frame.payload, k, u)) = loaded

C8_UnknownIdsIgnored ==
    (phase = "loaded" /\ frame.head.kind = "Settings"
       /\ Len(frame.payload) % 6 = 0) => UnknownIdsIgnored

(***************************************************************************)
(* C8 as amended: the same, for every frame without the ACK flag (the      *)
(* payload of an ACK frame must be empty, so a field added to it turns a   *)
(* successful load into InvalidPayloadLength).                             *)
(***************************************************************************)
C8_UnknownIdsIgnoredWithoutAck ==
    (phase = "loaded" /\ frame.head.kind = "Settings"
       /\ ~IsAckHead(frame.head)
       /\ Len(frame.payload) % 6 = 0) => UnknownIdsIgnored

\* a loaded payload with a field of unknown id ahead of a known one
C8_Witness ==
    /\ WholeFieldsOnStreamZero
    /\ NumFields(frame.payload) = 2
    /\ FieldAt(frame.payload, 1).id \in {7, 10, 258}
    /\ FieldAt(frame.payload, 2).id \in {1, 2, 3, 4, 5, 6, 8, 9}
    /\ loaded.tag = "Ok"
    /\ ValueOf(loaded.settings, FieldAt(frame.payload, 2).id)
         = <<FieldAt(frame.payload, 2).val>>

(***************************************************************************)
(* C9  PrioritiesBuilder de-duplicates by stream id, first wins, below and *)
(* at or above 32 alike: the collection holds at most one Priority per     *)
(* stream id, the one pushed first for that id, and the accepted entries   *)
(* stand in push order.                                                    *)
(***************************************************************************)
\* the pushes that are the first for their non-zero stream id, in push order
RECURSIVE FirstPerStream(_)
FirstPerStream(ps) ==
    IF ps = <<>> THEN <<>>
    ELSE LET init == FirstPerStream(SubSeq(ps, 1, Len(ps) - 1))
             last == ps[Len(ps)]
         IN IF last.stream_id = 0
               \/ \E i \in 1..Len(init) : init[i].stream_id = last.stream_id
            THEN init
            ELSE Append(init, last)

DedupFirstWins(c) ==
    /\ \A i, j \in 1..Len(c) : c[i].stream_id = c[j].stream_id => i = j
    /\ c = FirstPerStream(pbPushed)

C9_PriorityDedupFirstWins ==
    /\ DedupFirstWins(pb.priorities)
    /\ prios # <<>> => DedupFirstWins(prios[1])

\* built after a stream id below 32 and one at or above 32 were each pushed
\* twice with different dependencies
C9_Witness ==
    /\ prios # <<>>
    /\ \E i, j \in 1..Len(pbPushed) :
         /\ i < j
         /\ pbPushed[i].stream_id = pbPushed[j].stream_id
         /\ pbPushed[i].stream_id \in 1..31
         /\ pbPushed[i].dependency # pbPushed[j].dependency
    /\ \E i, j \in 1..Len(pbPushed) :
         /\ i < j
         /\ pbPushed[i].stream_id = pbPushed[j].stream_id
         /\ pbPushed[i].stream_id >= 32
         /\ pbPushed[i].dependency # pbPushed[j].dependency

(***************************************************************************)
(* C10  Pushing a Priority with stream id 0 leaves the builder unchanged,  *)
(* collection and bitmap, at any point of a push/extend sequence, and the  *)
(* built collection never holds stream id 0.                               *)
(***************************************************************************)
\* a call that handed the builder only priorities with stream id 0
OnlyZeroPushed ==
    /\ Len(pbPushed') > Len(pbPushed)
    /\ \A k \in (Len(pbPushed) + 1)..Len(pbPushed') : pbPushed'[k].stream_id = 0

NoStreamZero ==
    /\ \A i \in 1..Len(pb.priorities) : pb.priorities[i].stream_id # 0
    /\ pb.inserted_bitmap[2] % 2 = 0
    /\ prios # <<>> => \A i \in 1..Len(prios[1]) : prios[1][i].stream_id # 0

C10_ZeroStreamIdRejected ==
    /\ [][OnlyZeroPushed => pb' = pb]_vars
    /\ []NoStreamZero

\* built after stream id 0 was pushed between two accepted priorities
C10_Witness ==
    /\ prios # <<>>
    /\ Len(prios[1]) >= 2
    /\ \E i, j, k \in 1..Len(pbPushed) :
         /\ i < j /\ j < k
         /\ pbPushed[j].stream_id = 0
         /\ pbPushed[i] = prios[1][1]
         /\ pbPushed[k] = prios[1][2]

(***************************************************************************)
(* C11  Profile construction is initialize-once under concurrency: for     *)
(* every OnceLock static at most one initializer ever runs, also when      *)
(* several threads ask for it for the first time at once; what a caller    *)
(* can read from the static is nothing or the whole value the initializer  *)
(* returns, never the emulator the closure is still filling in; and every  *)
(* emulator clone and every returned profile equals that value.            *)
(***************************************************************************)
\* the value the closure of each static returns
InitializerValue ==
    LET records ==
            UNION { {statics_of(b).browser_emulator,
                     statics_of(b).emulation_profile} : b \in BuiltBrowsers }
    IN [s \in Statics |-> (CHOOSE r \in records : r.static = s).init]

\* the threads inside the closure of static s
Initializing(s) ==
    {t \in Threads :
        /\ thr[t].pc \in {"browser_emulator_init", "emulation_profile_init"}
        /\ static_at(thr[t]).static = s}

\* an emulator as the cache holds it: build_safari_settings sets os_type on
\* its clone only
WithoutOs(emulator) == [emulator EXCEPT !.os_type = None]

C11_InitializeOnce ==
    /\ \A s \in Statics :
         /\ inits[s] <= 1
         /\ Cardinality(Initializing(s)) <= 1
         /\ cells[s].once = "INCOMPLETE" <=> inits[s] = 0
         /\ cells[s].once = "RUNNING" <=> Initializing(s) # {}
         /\ cells[s].value = OnceLock_get(cells[s])
         /\ OnceLock_get(cells[s]) \in {None, Some(InitializerValue[s])}
    /\ \A t \in Threads :
         IsSome(thr[t].browser_emulator) =>
             Unwrap(thr[t].browser_emulator) =
                 InitializerValue[statics_of(thr[t].browser).browser_emulator.static]
    /\ IsSome(lastBuild) =>
         LET b == Unwrap(lastBuild) IN
         /\ WithoutOs(b.settings.browser_emulator) =
                InitializerValue[statics_of(b.browser).browser_emulator.static]
         /\ b.settings.emulation_profile =
                InitializerValue[statics_of(b.browser).emulation_profile.static]

\* two threads asked for Edge 144 before any build had returned: both hold
\* their clone of EDGE_144, which was initialized once, and one of them waits
\* while the other runs the closure of EDGE_PROFILE
C11_Witness ==
    \E t1, t2 \in Threads :
        /\ t1 # t2
        /\ lastBuild = None
        /\ thr[t1].browser = "EdgeV144" /\ thr[t2].browser = "EdgeV144"
        /\ thr[t1].pc = "emulation_profile_init"
        /\ thr[t2].pc = "emulation_profile"
        /\ IsSome(thr[t1].browser_emulator)
        /\ IsSome(thr[t2].browser_emulator)
        /\ inits["EDGE_144"] = 1
        /\ cells["EDGE_PROFILE"].once = "RUNNING"

(***************************************************************************)
(* C12  Resolving the OS of a request never changes the cache: a static    *)
(* that holds a value keeps it through every step, builds for other        *)
(* operating systems included, and a cached emulator carries no os_type.   *)
(* So two builds of one browser version return the same cipher, signature  *)
(* algorithm and named-group lists and seed whatever their OS values, and  *)
(* the os_type of a returned emulator is decided by the OS of its own      *)
(* request: for Safari, iOS gives iOS and macOS gives macOS.               *)
(***************************************************************************)
\* the TLS lists and seed of a returned BrowserSettings
TlsTables(bs) ==
    [emulator |->
         <<bs.browser_emulator.cipher_suites,
           bs.browser_emulator.signature_algorithms,
           bs.browser_emulator.named_groups,
           bs.browser_emulator.extension_order_seed>>,
     profile |->
         <<bs.emulation_profile.cipher_suites,
           bs.emulation_profile.signature_algorithms,
           bs.emulation_profile.named_groups,
           bs.emulation_profile.extension_order_seed>>]

\* a build the history remembers
RememberedBuilds ==
    {Unwrap(b) : b \in {x \in {seenBuild, lastBuild} : IsSome(x)}}

CacheKept ==
    \A s \in Statics : cells[s].once = "COMPLETE" => cells'[s] = cells[s]

OsResolvedPerRequest ==
    /\ \A s \in Statics :
         (IsSome(cells[s].value)
              /\ "os_type" \in DOMAIN Unwrap(cells[s].value))
             => Unwrap(cells[s].value).os_type = None
    /\ \A b1, b2 \in RememberedBuilds :
         b1.browser = b2.browser =>
             /\ TlsTables(b1.settings) = TlsTables(b2.settings)
             /\ b1.os = b2.os =>
                    b1.settings.browser_emulator.os_type =
                        b2.settings.browser_emulator.os_type
    /\ \A b \in RememberedBuilds :
         (impersonate_module(b.browser) = "safari"
              /\ b.os \in {"IOS", "MacOS"})
             => b.settings.browser_emulator.os_type = Some(b.os)

C12_CacheNotMutatedByOs ==
    /\ [][CacheKept]_vars
    /\ []OsResolvedPerRequest

\* Safari 26 was built for iOS and then for macOS; the cached emulator still
\* has no os_type
C12_Witness ==
    /\ IsSome(seenBuild) /\ IsSome(lastBuild)
    /\ Unwrap(seenBuild).browser = "SafariV26"
    /\ Unwrap(seenBuild).os = "IOS"
    /\ Unwrap(lastBuild).browser = "SafariV26"
    /\ Unwrap(lastBuild).os = "MacOS"
    /\ Unwrap(seenBuild).settings.browser_emulator.os_type = Some("IOS")
    /\ Unwrap(lastBuild).settings.browser_emulator.os_type = Some("MacOS")
    /\ cells["SAFARI_26"].once = "COMPLETE"
    /\ Unwrap(cells["SAFARI_26"].value).os_type = None

(***************************************************************************)
(* C13  Determinism: two builds of the same (browser version, OS), with    *)
(* builds of other profiles before, between, after or concurrent with      *)
(* them, return identical cipher-suite, signature-algorithm and            *)
(* named-group lists, the same extension-order seed, the same settings     *)
(* order and the same pseudo-header order.                                 *)
(***************************************************************************)
Fingerprint(bs) ==
    [tls |-> TlsTables(bs),
     settings_order |-> bs.http2.settings_order,
     headers_pseudo_order |-> bs.http2.headers_pseudo_order]

C13_Deterministic ==
    \A b1, b2 \in RememberedBuilds :
        (b1.browser = b2.browser /\ b1.os = b2.os)
            => Fingerprint(b1.settings) = Fingerprint(b2.settings)

\* Edge 144 for macOS was built twice and Firefox 140 once, three builds in
\* all
C13_Witness ==
    /\ IsSome(seenBuild) /\ IsSome(lastBuild)
    /\ Unwrap(seenBuild).browser = "EdgeV144"
    /\ Unwrap(seenBuild).os = "MacOS"
    /\ Unwrap(lastBuild).browser = "EdgeV144"
    /\ Unwrap(lastBuild).os = "MacOS"
    /\ builds = 3
    /\ \A t \in Threads : thr[t].pc = "idle"
    /\ cells["FIREFOX_140"].once = "COMPLETE"
    /\ cells["FIREFOX_PROFILE"].once = "COMPLETE"
    /\ IsSome(Unwrap(lastBuild).settings.http2.settings_order)
    /\ IsSome(Unwrap(lastBuild).settings.http2.headers_pseudo_order)

(***************************************************************************)
(* C14  Edge 144: a client configured with the Edge 144 profile sends a    *)
(* SETTINGS frame with exactly the fields 1:65536, 2:0, 4:6291456,         *)
(* 6:262144, in that order, whatever the transport's defaults and the OS;  *)
(* its connection window update is 15663105; its pseudo-header order is    *)
(* method, authority, scheme, path.                                        *)
(***************************************************************************)
\* the client configured last for this profile has opened a connection
Handshaken(browser) ==
    /\ IsSome(cb)
    /\ IsSome(Unwrap(cb).sent)
    /\ IsSome(sel)
    /\ Unwrap(sel).final_chrome = browser

\* the fields of the SETTINGS frame on the wire, in order
SentFields ==
    [k \in 1..NumFields(frame.payload) |-> FieldAt(frame.payload, k)]

Field(id, n) == [id |-> id, val |-> U32FromNat(n)]

\* what went out after the SETTINGS frame
Sent == Unwrap(Unwrap(cb).sent)

C14_Edge144Scenario ==
    Handshaken("EdgeV144") =>
        /\ frame.head.kind = "Settings"
        /\ ~IsAckHead(frame.head)
        /\ frame.length = Len(frame.payload)
        /\ SentFields = <<Field(1, 65536), Field(2, 0), Field(4, 6291456),
                          Field(6, 262144)>>
        /\ Sent.window_update = Some(U32FromNat(15663105))
        /\ Sent.pseudo_order =
               Some(<<"Method", "Authority", "Scheme", "Path">>)

\* Edge 144 configured as the second client of the process, over a
\* transport whose defaults give every other setting a value
C14_Witness ==
    /\ Handshaken("EdgeV144")
    /\ builds = 2
    /\ IsSome(settings.max_concurrent_streams)
    /\ IsSome(settings.max_frame_size)
    /\ IsSome(settings.enable_connect_protocol)
    /\ NumFields(frame.payload) = 4

(***************************************************************************)
(* C15  Firefox 140 and Firefox 146: the client sends a SETTINGS frame     *)
(* with exactly the fields 1:65536, 2:0, 4:131072, 5:16384, in that order  *)
(* (no MAX_HEADER_LIST_SIZE, whatever the transport's default for it);     *)
(* its connection window update is 12517377; its pseudo-header order is    *)
(* method, path, authority, scheme.                                        *)
(***************************************************************************)
C15_FirefoxScenario ==
    (Handshaken("FirefoxV140") \/ Handshaken("FirefoxV146")) =>
        /\ frame.head.kind = "Settings"
        /\ ~IsAckHead(frame.head)
        /\ frame.length = Len(frame.payload)
        /\ SentFields = <<Field(1, 65536), Field(2, 0), Field(4, 131072),
                          Field(5, 16384)>>
        /\ Sent.window_update = Some(U32FromNat(12517377))
        /\ Sent.pseudo_order =
               Some(<<"Method", "Path", "Authority", "Scheme">>)

\* Firefox 140 over a transport that has a default max header list size,
\* which the builder was not given
C15_Witness ==
    /\ Handshaken("FirefoxV140")
    /\ Unwrap(cb).builder.http2_max_header_list_size = None
    /\ IsSome(settings.max_header_list_size)
    /\ NumFields(frame.payload) = 4

(***************************************************************************)
(* C16  Safari 26, for macOS and iOS alike: the client sends a SETTINGS    *)
(* frame with exactly the fields 2:0, 3:100, 4:2097152, 9:1, in that       *)
(* order, although configure_impersonate hands the builder a max header    *)
(* list size of 262144; its connection window update is 10420225; its      *)
(* pseudo-header order is method, scheme, authority, path.                 *)
(***************************************************************************)
C16_Safari26Scenario ==
    Handshaken("SafariV26") =>
        /\ frame.head.kind = "Settings"
        /\ ~IsAckHead(frame.head)
        /\ frame.length = Len(frame.payload)
        /\ SentFields = <<Field(2, 0), Field(3, 100), Field(4, 2097152),
                          Field(9, 1)>>
        /\ Unwrap(cb).builder.http2_max_header_list_size =
               Some(U32FromNat(262144))
        /\ settings.max_header_list_size = Some(U32FromNat(262144))
        /\ Sent.window_update = Some(U32FromNat(10420225))
        /\ Sent.pseudo_order =
               Some(<<"Method", "Scheme", "Authority", "Path">>)

\* Safari 26 for iOS, over a transport with a default header table size
C16_Witness ==
    /\ Handshaken("SafariV26")
    /\ Unwrap(sel).final_os = "IOS"
    /\ Unwrap(Unwrap(cb).builder.browser_emulator).os_type = Some("IOS")
    /\ IsSome(settings.header_table_size)
    /\ settings.max_header_list_size = Some(U32FromNat(262144))
    /\ NumFields(frame.payload) = 4

(***************************************************************************)
(* C17  Advertised and accepted encodings agree for every profile and OS:  *)
(* on a configured builder, decoding of gzip, brotli and zstd is enabled   *)
(* exactly when the Accept-Encoding default header lists gzip, br and      *)
(* zstd.  Edge and Opera keep all three; Firefox and Safari keep gzip and  *)
(* brotli and have zstd disabled.                                          *)
(***************************************************************************)
Advertises(builder, token) ==
    \E i \in 1..Len(builder.accept_encoding) :
        builder.accept_encoding[i] = token

C17_EncodingsConsistent ==
    (IsSome(cb) /\ IsSome(sel)) =>
        LET builder == Unwrap(cb).builder
            module == impersonate_module(Unwrap(sel).final_chrome)
        IN /\ builder.gzip <=> Advertises(builder, "gzip")
           /\ builder.brotli <=> Advertises(builder, "br")
           /\ builder.zstd <=> Advertises(builder, "zstd")
           /\ builder.gzip /\ builder.brotli
           /\ builder.zstd <=> module \in {"edge", "opera"}

\* Firefox 146 configured for Android: zstd is neither advertised nor
\* decoded, gzip and brotli are both
C17_Witness ==
    /\ IsSome(cb) /\ IsSome(sel)
    /\ Unwrap(sel).final_chrome = "FirefoxV146"
    /\ Unwrap(sel).final_os = "Android"
    /\ ~Unwrap(cb).builder.zstd
    /\ ~Advertises(Unwrap(cb).builder, "zstd")
    /\ Unwrap(cb).builder.brotli
    /\ Advertises(Unwrap(cb).builder, "br")

(***************************************************************************)
(* C20  get_random_impersonate_config keeps what it is given and           *)
(* randomises only what it is not: a given browser and a given OS come     *)
(* back unchanged; a browser that is not given resolves to one of the 10   *)
(* Impersonate variants and an OS that is not given to one of the 5        *)
(* ImpersonateOS values, nothing else is ever returned, and before every   *)
(* call each of the 10 and each of the 5 is a value the call can return.   *)
(***************************************************************************)
Resolved(chrome, os_type, final_chrome, final_os) ==
    /\ GetRandomImpersonateConfig(chrome, os_type)
    /\ Unwrap(sel').final_chrome = final_chrome
    /\ Unwrap(sel').final_os = final_os

C20_SelectionKeepsSpecified ==
    /\ Cardinality(Impersonate) = 10
    /\ Cardinality(ImpersonateOS) = 5
    /\ IsSome(sel) =>
         LET r == Unwrap(sel) IN
         /\ IsSome(r.chrome) => r.final_chrome = Unwrap(r.chrome)
         /\ IsSome(r.os_type) => r.final_os = Unwrap(r.os_type)
         /\ r.final_chrome \in Impersonate
         /\ r.final_os \in ImpersonateOS
    /\ \A b \in Impersonate, os \in ImpersonateOS :
         /\ ENABLED Resolved(None, None, b, os)
         /\ ENABLED Resolved(Some(b), None, b, os)
         /\ ENABLED Resolved(None, Some(os), b, os)
         /\ \A b2 \in Impersonate \ {b}, os2 \in ImpersonateOS \ {os} :
              /\ ~ENABLED Resolved(Some(b), Some(os), b2, os)
              /\ ~ENABLED Resolved(Some(b), Some(os), b, os2)

\* a call without a browser, for Linux, that resolved to Safari 18.5
C20_Witness ==
    /\ IsSome(sel)
    /\ Unwrap(sel).chrome = None
    /\ Unwrap(sel).os_type = Some("Linux")
    /\ Unwrap(sel).final_chrome = "SafariV18_5"
    /\ Unwrap(sel).final_os = "Linux"

(***************************************************************************)
(* C18  A parser called on an identifier that is neither listed nor        *)
(* "random" ("chrome_200", "solaris", "Windows", the empty string) returns *)
(* an error that names the identifier and never a browser or an OS, and a  *)
(* parser called on "random" always returns a browser or an OS.  The       *)
(* second half fails for the two parsers of traits.rs, whose matches have  *)
(* no "random" arm.                                                        *)
(***************************************************************************)
Unlisted == {"chrome_200", "solaris", "Windows", ""}

Names(error, s) == error[2] = <<"\"", s, "\"">>

C18_UnsupportedIsErrorRandomIsNot ==
    IsSome(parsed) =>
        LET call == Unwrap(parsed) IN
        /\ call.s \in Unlisted =>
             /\ call.result.tag = "Err"
             /\ Names(call.result.error, call.s)
        /\ call.s = "random" => call.result.tag = "Ok"

(***************************************************************************)
(* C19  EmulationFromStr accepts "chrome_144" and "firefox_140", each      *)
(* resolving to that browser and version, and accepts "random";            *)
(* EmulationOSFromStr accepts exactly "windows", "macos", "linux",         *)
(* "android", "ios" and "random".  The first half fails: the newest arms   *)
(* of EmulationFromStr are "chrome_137" and "firefox_139".                 *)
(***************************************************************************)
C19_AcceptedIdentifiers ==
    IsSome(parsed) =>
        LET call == Unwrap(parsed) IN
        /\ call.parser = "EmulationFromStr" =>
             /\ call.s = "chrome_144" => call.result = Ok("Chrome144")
             /\ call.s = "firefox_140" => call.result = Ok("Firefox140")
             /\ call.s = "random" => call.result.tag = "Ok"
        /\ call.parser = "EmulationOSFromStr" =>
             (call.result.tag = "Ok" <=>
                call.s \in {"windows", "macos", "linux", "android", "ios",
                            "random"})

(***************************************************************************)
(* C21  configure_impersonate of the edge, firefox and opera modules       *)
(* called with os_type None uses Windows as the OS of the profile it       *)
(* builds.  The code resolves a missing OS by random_impersonate_os, so    *)
(* any of the five OS values can be the one used.                          *)
(***************************************************************************)
C21_NoOsDefaultsToWindows ==
    (/\ IsSome(cb)
     /\ IsSome(sel)
     /\ Unwrap(sel).os_type = None
     /\ impersonate_module(Unwrap(sel).final_chrome)
            \in {"edge", "firefox", "opera"})
        => Unwrap(sel).final_os = "Windows"

(***************************************************************************)
(* C22  set_max_frame_size called with Some(v), v below 16384 or above     *)
(* 2^24 - 1, aborts by assertion and leaves the stored max_frame_size as   *)
(* it was; called with None or a value in that range it stores the value.  *)
(* A Settings whose max_frame_size was only set through the setter holds   *)
(* None or a value between 16384 and 2^24 - 1.                             *)
(***************************************************************************)
\* 16384 <= v <= 16777215 on the halves of v: 16777215 = 255 * 65536 + 65535
InFrameSizeRange(v) == v[1] <= 255 /\ (v[1] >= 1 \/ v[2] >= 16384)

Accepted(size) == IsSome(size) => InFrameSizeRange(Unwrap(size))

SetMaxFrameSizeOutcome ==
    \A size \in MaxFrameSizeArgs :
        set_max_frame_size(size) =>
            IF Accepted(size)
            THEN /\ settings'.max_frame_size = size
                 /\ phase' = "config"
            ELSE /\ settings'.max_frame_size = settings.max_frame_size
                 /\ phase' = "panicked"

C22_MaxFrameSizeChecked ==
    /\ [][SetMaxFrameSizeOutcome]_vars
    /\ []Accepted(settings.max_frame_size)

\* the setter stored 16384, and a later call with 16383 or 2^24 aborted
C22_Witness ==
    /\ phase = "panicked"
    /\ settings.max_frame_size = Some(U32(0, 16384))

(***************************************************************************)
(* C23  Cache hit: once a resolve of a name has returned Ok, every later   *)
(* resolve of that name, through the DnsCache or a clone of it, that       *)
(* starts before the expiry of that resolve's entry and with no clear in   *)
(* between returns the cached addresses at once: the inner resolver is     *)
(* not invoked and no future is left waiting for it.                       *)
(***************************************************************************)
HitWhileFresh ==
    \A h \in Handles, name \in DOMAIN entries :
        (/\ DnsCache_resolve(h, name)
         /\ IsSome(completed[name])
         /\ now < Unwrap(completed[name]))
            => /\ entries[name] # None
               /\ done' = Some([handle |-> h, name |-> name, hit |-> TRUE,
                                result |->
                                    Ok(Unwrap(entries[name]).addrs)])
               /\ calls' = calls
               /\ pending' = pending

C23_CacheHit == [][HitWhileFresh]_vars

\* the clone's resolve of example.com returned the addresses that the one
\* invocation of the inner resolver had given, a tick or more later
C23_Witness ==
    /\ IsSome(done)
    /\ Unwrap(done) = [handle |-> 2, name |-> "example.com", hit |-> TRUE,
                       result |-> Ok(<<8081>>)]
    /\ calls["example.com"] = 1
    /\ now >= 1
    /\ pending = [h \in Handles |-> None]

(***************************************************************************)
(* C24  Cache expiry: a resolve of a name whose entry has reached or       *)
(* passed its expiry time is a miss: nothing is returned from the cache    *)
(* and the future waits for the inner resolver; when the inner resolver    *)
(* answers Ok, it has been invoked once more and the entry of the name is  *)
(* replaced by the new addresses, expiring default_ttl after the insert.   *)
(***************************************************************************)
MissWhenExpired ==
    \A h \in Handles, name \in DOMAIN entries :
        (/\ DnsCache_resolve(h, name)
         /\ entries[name] # None
         /\ now >= Unwrap(entries[name]).expires_at)
            => /\ pending'[h] = Some(name)
               /\ done' = done
               /\ entries' = entries

RefreshOnOk ==
    \A h \in Handles, addrs \in {<<8080>>, <<8081>>} :
        InnerResolved(h, Ok(addrs)) =>
            LET name == Unwrap(pending[h]) IN
            /\ calls'[name] = calls[name] + 1
            /\ entries'[name] =
                   Some([addrs |-> addrs, expires_at |-> now + DefaultTtl])
            /\ done' = Some([handle |-> h, name |-> name, hit |-> FALSE,
                             result |-> Ok(addrs)])

C24_CacheExpiry == [][MissWhenExpired /\ RefreshOnOk]_vars

\* the only handle resolved example.com once, the entry it stored is still
\* there and has expired, and its second resolve awaits the inner resolver
C24_Witness ==
    /\ handles = 1
    /\ pending[1] = Some("example.com")
    /\ calls["example.com"] = 1
    /\ entries["example.com"] # None
    /\ now >= Unwrap(entries["example.com"]).expires_at

(***************************************************************************)
(* C25  purge_expired removes exactly the entries whose expiry time has    *)
(* been reached and leaves every other entry as it is.  len() counts       *)
(* every stored entry, expired or not: an expired entry stays stored, and  *)
(* counted, until purge_expired, clear or an insert for its name.          *)
(***************************************************************************)
Expired(name) ==
    entries[name] # None /\ now >= Unwrap(entries[name]).expires_at

PurgeExact ==
    DnsCache_purge_expired =>
        \A name \in DOMAIN entries :
            entries'[name] = IF Expired(name) THEN None ELSE entries[name]

ExpiredStaysStored ==
    \A name \in DOMAIN entries :
        (Expired(name) /\ entries'[name] # entries[name]) =>
            \/ DnsCache_purge_expired
            \/ DnsCache_clear
            \/ \E addrs \in {<<8080>>, <<8081>>} :
                 \/ Insert(name, addrs)
                 \/ \E h \in Handles :
                      pending[h] = Some(name) /\ InnerResolved(h, Ok(addrs))

LenCountsAll ==
    CacheInner_len =
        Cardinality({name \in DOMAIN entries : Expired(name)})
        + Cardinality({name \in DOMAIN entries :
                          entries[name] # None /\ ~Expired(name)})

C25_PurgeExpired ==
    /\ [][PurgeExact /\ ExpiredStaysStored]_vars
    /\ []LenCountsAll

\* the entry that a resolve stored for example.com is gone without a clear
\* since, the unexpired entry of test.com is still there, and len() is 1
C25_Witness ==
    /\ completed["example.com"] # None
    /\ entries["example.com"] = None
    /\ entries["test.com"] # None
    /\ ~Expired("test.com")
    /\ CacheInner_len = 1

(***************************************************************************)
(* C29  No stale answer: under every interleaving of resolve, insert,      *)
(* clear and purge_expired on a DnsCache and its clones, a resolve that    *)
(* returns without leaving a future for the inner resolver returns the     *)
(* addresses of the entry stored under that very name, an entry that some  *)
(* insert for that name put there and whose expiry time had not been       *)
(* reached at the lookup.                                                  *)
(***************************************************************************)
ServedUnexpired ==
    \A h \in Handles, name \in DOMAIN entries :
        (DnsCache_resolve(h, name) /\ pending'[h] = None) =>
            /\ entries[name] # None
            /\ now < Unwrap(entries[name]).expires_at
            /\ Unwrap(entries[name]).addrs \in stored[name]
            /\ done' = Some([handle |-> h, name |-> name, hit |-> TRUE,
                             result |-> Ok(Unwrap(entries[name]).addrs)])
            /\ calls' = calls

C29_NoStaleAnswer == [][ServedUnexpired]_vars

\* test.com was served from the cache through the original while the
\* clone's resolve of example.com awaits the inner resolver for the second
\* time and the expired entry of example.com is still stored
C29_Witness ==
    /\ IsSome(done)
    /\ Unwrap(done).hit
    /\ Unwrap(done).handle = 1
    /\ Unwrap(done).name = "test.com"
    /\ pending[2] = Some("example.com")
    /\ calls["example.com"] = 1
    /\ Expired("example.com")

(***************************************************************************)
(* C30  A failed resolution is not cached: when the inner resolver         *)
(* answers with an error, resolve returns that error and the entries stay  *)
(* as they were; a name all of whose resolutions failed has no entry, so   *)
(* its next resolve goes to the inner resolver again.                      *)
(***************************************************************************)
ErrorLeavesEntries ==
    \A h \in Handles :
        InnerResolved(h, Err("resolve error")) =>
            /\ entries' = entries
            /\ done' = Some([handle |-> h, name |-> Unwrap(pending[h]),
                             hit |-> FALSE,
                             result |-> Err("resolve error")])

NothingStoredNothingCached ==
    \A name \in DOMAIN entries :
        stored[name] = {} =>
            /\ entries[name] = None
            /\ CacheInner_get(name) = None

C30_ErrorNotCached ==
    /\ [][ErrorLeavesEntries]_vars
    /\ []NothingStoredNothingCached

\* the only handle resolved example.com twice, the inner resolver failed
\* both times, and there is no entry for example.com
C30_Witness ==
    /\ handles = 1
    /\ calls["example.com"] = 2
    /\ stored["example.com"] = {}
    /\ entries["example.com"] = None
    /\ IsSome(done)
    /\ Unwrap(done) = [handle |-> 1, name |-> "example.com", hit |-> FALSE,
                       result |-> Err("resolve error")]

(***************************************************************************)
(* C26  Priority::load returns Ok for every frame head and every payload,  *)
(* whatever its length and content, a dependency on the frame's own        *)
(* stream included: the stream id is the head's and the dependency is      *)
(* always dependency id 0, weight 255, exclusive.  It never returns        *)
(* InvalidPayloadLength or InvalidDependencyId.                            *)
(***************************************************************************)
C26_PriorityLoadEmitsAnchor ==
    (phase = "loaded" /\ frame.head.kind = "Priority") =>
        /\ loaded.tag = "Ok"
        /\ loaded.settings.stream_id = frame.head.stream_id
        /\ loaded.settings.dependency =
               [dependency_id |-> 0, weight |-> 255, is_exclusive |-> TRUE]
        /\ loaded # Err("InvalidPayloadLength")
        /\ loaded # Err("InvalidDependencyId")

\* a PRIORITY frame of stream 1 whose five octets name stream 1 as the
\* dependency, with weight 15 and not exclusive, has been decoded
C26_Witness ==
    /\ phase = "loaded"
    /\ frame.head = Head_new("Priority", 0, 1)
    /\ frame.payload = <<0, 0, 0, 1, 15>>
    /\ loaded = Ok([stream_id |-> 1,
                    dependency |-> [dependency_id |-> 0, weight |-> 255,
                                    is_exclusive |-> TRUE]])

(***************************************************************************)
(* C27  In every state that push and extend reach from builder(), bit i    *)
(* of inserted_bitmap is set, for i in 1..31, exactly when the collection  *)
(* holds an entry with stream id i; bit 0 is never set; so the bitmap is   *)
(* a function of the stream ids below 32 in the collection and entries     *)
(* with a stream id of 32 or more have no part in it.                      *)
(***************************************************************************)
\* bit i of a u32 held as <<high half, low half>>
Bit(u, i) ==
    IF i < 16 THEN (u[2] \div (2 ^ i)) % 2 ELSE (u[1] \div (2 ^ (i - 16))) % 2

Holds(i) ==
    \E k \in 1..Len(pb.priorities) : pb.priorities[k].stream_id = i

C27_BitmapConsistent ==
    /\ Bit(pb.inserted_bitmap, 0) = 0
    /\ \A i \in 1..31 : Bit(pb.inserted_bitmap, i) = 1 <=> Holds(i)

\* streams 1, 32 and 31 were pushed in that order: bits 1 and 31 are set
C27_Witness ==
    /\ Len(pb.priorities) = 3
    /\ pb.priorities[1].stream_id = 1
    /\ pb.priorities[2].stream_id = 32
    /\ pb.priorities[3].stream_id = 31
    /\ pb.inserted_bitmap = U32(32768, 2)

(***************************************************************************)
(* C28  For a SETTINGS payload of whole fields on stream 0 without ACK:    *)
(* when every field of a known id passes validation, Settings::load        *)
(* returns Ok and each known id has the value of its last field in the     *)
(* payload (None when it has no field); when any field fails validation,   *)
(* an earlier one of a repeated id included, the decode fails with         *)
(* InvalidSettingValue; and a decoded Settings always carries the default  *)
(* settings order, whatever the order of the fields.                       *)
(***************************************************************************)
LastValue(payload, id) ==
    LET ks == {k \in 1..NumFields(payload) : FieldAt(payload, k).id = id}
    IN IF ks = {} THEN None
       ELSE Some(FieldAt(payload, CHOOSE k \in ks : \A j \in ks : j <= k).val)

C28_LastDuplicateWins ==
    WholeFieldsOnStreamZero =>
        IF \E k \in 1..NumFields(frame.payload) :
               OutOfRange(FieldAt(frame.payload, k))
        THEN loaded = Err("InvalidSettingValue")
        ELSE /\ loaded.tag = "Ok"
             /\ \A id \in {1, 2, 3, 4, 5, 6, 8, 9} :
                  ValueOf(loaded.settings, id) = LastValue(frame.payload, id)
             /\ loaded.settings.settings_order =
                    <<HeaderTableSize, EnablePush, MaxConcurrentStreams,
                      InitialWindowSize, MaxFrameSize, MaxHeaderListSize,
                      EnableConnectProtocol, NoRfc7540Priorities>>

\* MAX_FRAME_SIZE came twice, 16384 and then 2^24 - 1, and the second stays
C28_Witness ==
    /\ WholeFieldsOnStreamZero
    /\ NumFields(frame.payload) = 2
    /\ FieldAt(frame.payload, 1) = [id |-> 5, val |-> <<0, 16384>>]
    /\ FieldAt(frame.payload, 2) = [id |-> 5, val |-> <<255, 65535>>]
    /\ loaded.tag = "Ok"
    /\ loaded.settings.max_frame_size = Some(<<255, 65535>>)
====
